---- MODULE Spec2Model ----
(***************************************************************************)
(* A model of rerejs: the compiler that lowers a pattern AST to op-codes   *)
(* (src/engine/compiler.ts) and the backtracking VM that executes them     *)
(* (Program.exec).  Patterns are the ASTs the parser returns for the       *)
(* sources quoted next to them; inputs are all strings over a two letter   *)
(* alphabet up to MaxLen.  The flags ignoreCase, multiline, dotAll and     *)
(* unicode are off in every modelled pattern, so a code point always has   *)
(* size 1 and canonicalize is never called; sticky is chosen freely.       *)
(***************************************************************************)
EXTENDS Integers, Sequences, FiniteSets, TLC

\* ------------------------------------------------------------------ bounds

\* Longest input string.
MaxLen == 3

\* Longest aux stack the model follows; a run that needs more is cut off
\* (status "exhausted").  Every terminating run of the modelled patterns
\* stays far below it.
MaxStack == 7

\* Largest start position passed to exec.
MaxPos == 1

\* ------------------------------------------------------- JavaScript values

\* `Infinity`, the max of `{m,}`.
Infinity == 1000000

\* `null`, the max of `{m}`.
Null == -1

\* `undefined`: what reading an array slot that was never written gives.
Undefined == -1000

\* `NaN`: what `undefined--` stores.
NaN == -1001

IsNumber(v) == v # Undefined /\ v # NaN

\* The code points of the input alphabet: 'a' and 'b'.
CharA == 97
CharB == 98
Alphabet == {CharA, CharB}

\* ------------------------------------------------------------ pattern AST

Sequence(children) == [type |-> "Sequence", children |-> children]
Disjunction(children) == [type |-> "Disjunction", children |-> children]
Group(child) == [type |-> "Group", child |-> child]
Capture(index, child) == [type |-> "Capture", index |-> index, child |-> child]
NamedCapture(name, child) == [type |-> "NamedCapture", name |-> name, child |-> child]
Many(child, nonGreedy) == [type |-> "Many", nonGreedy |-> nonGreedy, child |-> child]
Some(child, nonGreedy) == [type |-> "Some", nonGreedy |-> nonGreedy, child |-> child]
Optional(child, nonGreedy) == [type |-> "Optional", nonGreedy |-> nonGreedy, child |-> child]
Repeat(child, min, max, nonGreedy) ==
  [type |-> "Repeat", min |-> min, max |-> max, nonGreedy |-> nonGreedy, child |-> child]
LineBegin == [type |-> "LineBegin"]
LineEnd == [type |-> "LineEnd"]
LookAhead(child, negative) == [type |-> "LookAhead", negative |-> negative, child |-> child]
LookBehind(child, negative) == [type |-> "LookBehind", negative |-> negative, child |-> child]
Char(value) == [type |-> "Char", value |-> value]
Dot == [type |-> "Dot"]
BackRef(index) == [type |-> "BackRef", index |-> index]
NamedBackRef(name) == [type |-> "NamedBackRef", name |-> name]

\* ---------------------------------------------------------------- op-codes

OpAny == [op |-> "any"]
OpBack == [op |-> "back"]
OpCapBegin(index) == [op |-> "cap_begin", index |-> index]
OpCapEnd(index) == [op |-> "cap_end", index |-> index]
OpCapReset(from, to) == [op |-> "cap_reset", from |-> from, to |-> to]
OpChar(value) == [op |-> "char", value |-> value]
OpDec == [op |-> "dec"]
OpEmptyCheck == [op |-> "empty_check"]
OpFail == [op |-> "fail"]
OpFork(nonGreedy, next) == [op |-> IF nonGreedy THEN "fork_next" ELSE "fork_cont", next |-> next]
OpJump(cont) == [op |-> "jump", cont |-> cont]
OpLineBegin == [op |-> "line_begin"]
OpLineEnd == [op |-> "line_end"]
OpLoop(cont) == [op |-> "loop", cont |-> cont]
OpMatch == [op |-> "match"]
OpPop == [op |-> "pop"]
OpPush(value) == [op |-> "push", value |-> value]
OpPushPos == [op |-> "push_pos"]
OpPushProc == [op |-> "push_proc"]
OpRef(direction, index) ==
  [op |-> IF direction = "backward" THEN "ref_back" ELSE "ref", index |-> index]
OpRestorePos == [op |-> "restore_pos"]
OpRewindProc == [op |-> "rewind_proc"]

\* ---------------------------------------------------------------- compiler

\* The compiler's mutable fields, threaded through the recursion: `advance`,
\* `captureParensIndex`, and `error`, the message of a thrown exception ("" when
\* nothing was thrown).  `direction` is restored by its setters, so it is a
\* parameter.
Compiled(codes, advance, captureParensIndex) ==
  [codes |-> codes, advance |-> advance, captureParensIndex |-> captureParensIndex,
   error |-> ""]

Thrown(message, captureParensIndex) ==
  [codes |-> <<>>, advance |-> FALSE, captureParensIndex |-> captureParensIndex,
   error |-> message]

Reverse(s) == [i \in 1..Len(s) |-> s[Len(s) + 1 - i]]

insertEmptyCheck(advance, codes0) ==
  IF advance THEN codes0 ELSE <<OpPushPos>> \o codes0 \o <<OpEmptyCheck>>

\* A defect: no cap_reset is inserted.
insertNoCapReset(from, captureParensIndex, codes0) == codes0

insertCapReset(from, captureParensIndex, codes0) ==
  IF from = captureParensIndex THEN codes0
  ELSE <<OpCapReset(from, captureParensIndex)>> \o codes0

insertBack(direction, codes) ==
  IF direction = "forward" THEN codes ELSE <<OpBack>> \o codes \o <<OpBack>>

\* children.reduceRight(...) of compileDisjunction.
RECURSIVE DisjunctionCodes(_)
DisjunctionCodes(children) ==
  IF Len(children) = 1 THEN children[1]
  ELSE LET codes0 == Head(children)
           codes == DisjunctionCodes(Tail(children))
       IN <<OpFork(FALSE, Len(codes0) + 1)>> \o codes0 \o <<OpJump(Len(codes))>> \o codes

\* The counted prefix of compileRepeat (min iterations).
RepeatMin(min, from, this, codes0) ==
  IF min = 1 THEN codes0
  ELSE IF min > 1 THEN
    LET codes1 == insertCapReset(from, this.captureParensIndex, codes0)
    IN <<OpPush(min)>> \o codes1 \o <<OpDec, OpLoop(-1 - Len(codes1) - 1), OpPop>>
  ELSE <<>>

\* The tail of compileRepeat (the iterations between min and max).
RepeatMax(min, max, nonGreedy, from, advance, this, codes0) ==
  LET codes1 == insertCapReset(from, this.captureParensIndex,
                               insertEmptyCheck(advance, codes0))
      remain == max - min
  IN IF max = Infinity THEN
       <<OpFork(nonGreedy, Len(codes1) + 1)>> \o codes1 \o <<OpJump(-1 - Len(codes1) - 1)>>
     ELSE IF max > min THEN
       IF remain = 1 THEN <<OpFork(nonGreedy, Len(codes1))>> \o codes1
       ELSE <<OpPush(remain + 1), OpFork(nonGreedy, Len(codes0) + 4)>> \o codes1
            \o <<OpDec, OpLoop(-1 - Len(codes0) - 2), OpFail, OpPop>>
     ELSE <<>>

RECURSIVE compileNode(_, _, _, _, _)
RECURSIVE compileChildren(_, _, _, _, _)

\* The `for (const child of children)` loops of compileDisjunction and
\* compileSequence: the results of compiling each child in turn.  A throw ends
\* the loop.
compileChildren(pattern, children, direction, advance, captureParensIndex) ==
  IF children = <<>> THEN <<>>
  ELSE LET r == compileNode(pattern, Head(children), direction, advance, captureParensIndex)
       IN IF r.error # "" THEN <<r>>
          ELSE <<r>> \o compileChildren(pattern, Tail(children), direction,
                                        r.advance, r.captureParensIndex)

RECURSIVE AllAdvance(_)
AllAdvance(rs) == IF rs = <<>> THEN TRUE ELSE Head(rs).advance /\ AllAdvance(Tail(rs))

RECURSIVE AnyAdvance(_)
AnyAdvance(rs) == IF rs = <<>> THEN FALSE ELSE Head(rs).advance \/ AnyAdvance(Tail(rs))

RECURSIVE ConcatCodes(_)
ConcatCodes(rs) == IF rs = <<>> THEN <<>> ELSE Head(rs).codes \o ConcatCodes(Tail(rs))

compileDisjunction(pattern, node, direction, advance, captureParensIndex) ==
  IF Len(node.children) = 0 THEN Thrown("BUG: invalid pattern", captureParensIndex)
  ELSE LET rs == compileChildren(pattern, node.children, direction, advance,
                                 captureParensIndex)
           last == rs[Len(rs)]
       IN IF last.error # "" THEN last
          ELSE Compiled(DisjunctionCodes([i \in 1..Len(rs) |-> rs[i].codes]),
                        AllAdvance(rs), last.captureParensIndex)

compileSequence(pattern, node, direction, advance, captureParensIndex) ==
  LET children == IF direction = "backward" THEN Reverse(node.children)
                  ELSE node.children
      rs == compileChildren(pattern, children, direction, advance, captureParensIndex)
  IN IF rs = <<>> THEN Compiled(<<>>, FALSE, captureParensIndex)
     ELSE IF rs[Len(rs)].error # "" THEN rs[Len(rs)]
     ELSE Compiled(ConcatCodes(rs), AnyAdvance(rs), rs[Len(rs)].captureParensIndex)

compileCapture(pattern, node, direction, advance, captureParensIndex) ==
  LET current == captureParensIndex
      r == compileNode(pattern, node.child, direction, advance, captureParensIndex + 1)
      backward == direction = "backward"
  IN IF r.error # "" THEN r
     ELSE IF node.index # current
     THEN Thrown("BUG: invalid pattern", r.captureParensIndex)
     ELSE Compiled(<<IF backward THEN OpCapEnd(node.index) ELSE OpCapBegin(node.index)>>
                   \o r.codes
                   \o <<IF backward THEN OpCapBegin(node.index) ELSE OpCapEnd(node.index)>>,
                   r.advance, r.captureParensIndex)

compileNamedCapture(pattern, node, direction, advance, captureParensIndex) ==
  LET current == captureParensIndex
      r == compileNode(pattern, node.child, direction, advance, captureParensIndex + 1)
  IN IF r.error # "" THEN r
     ELSE IF node.name \notin DOMAIN pattern.names \/ pattern.names[node.name] # current
     THEN Thrown("BUG: invalid pattern", r.captureParensIndex)
     ELSE LET index == pattern.names[node.name]
          IN Compiled(<<OpCapBegin(index)>> \o r.codes \o <<OpCapEnd(index)>>,
                      r.advance, r.captureParensIndex)

compileMany(pattern, node, direction, advance, captureParensIndex) ==
  LET from == captureParensIndex
      r == compileNode(pattern, node.child, direction, advance, captureParensIndex)
      codes0 == insertEmptyCheck(r.advance, r.codes)
      codes1 == insertCapReset(from, r.captureParensIndex, codes0)
  IN IF r.error # "" THEN r
     ELSE Compiled(<<OpFork(node.nonGreedy, Len(codes1) + 1)>> \o codes1
                   \o <<OpJump(-1 - Len(codes1) - 1)>>,
                   FALSE, r.captureParensIndex)

compileSome(pattern, node, direction, advance, captureParensIndex) ==
  LET from == captureParensIndex
      r == compileNode(pattern, node.child, direction, advance, captureParensIndex)
      codes0 == r.codes
      codes1 == insertCapReset(from, r.captureParensIndex,
                               insertEmptyCheck(r.advance, codes0))
  IN IF r.error # "" THEN r
     ELSE Compiled(codes0 \o <<OpFork(node.nonGreedy, Len(codes1) + 1)>> \o codes1
                   \o <<OpJump(-1 - Len(codes1) - 1)>>,
                   r.advance, r.captureParensIndex)

compileOptional(pattern, node, direction, advance, captureParensIndex) ==
  LET r == compileNode(pattern, node.child, direction, advance, captureParensIndex)
      codes0 == r.codes
  IN IF r.error # "" THEN r
     ELSE Compiled(<<OpFork(node.nonGreedy, Len(codes0))>> \o codes0,
                   FALSE, r.captureParensIndex)

compileRepeat(pattern, node, direction, advance, captureParensIndex) ==
  LET from == captureParensIndex
      r == compileNode(pattern, node.child, direction, advance, captureParensIndex)
      codes0 == r.codes
      advance1 == IF node.min >= 1 THEN r.advance ELSE FALSE
      max == IF node.max = Null THEN node.min ELSE node.max
  IN IF r.error # "" THEN r
     ELSE Compiled(RepeatMin(node.min, from, r, codes0)
                   \o RepeatMax(node.min, max, node.nonGreedy, from, advance1, r, codes0),
                   advance1, r.captureParensIndex)

compileLookAround(pattern, node, direction, advance, captureParensIndex) ==
  LET r == compileNode(pattern, node.child, direction, advance, captureParensIndex)
      codes0 == r.codes
  IN IF r.error # "" THEN r
     ELSE IF node.negative
     THEN Compiled(<<OpPushPos, OpPushProc, OpFork(FALSE, Len(codes0) + 2)>> \o codes0
                   \o <<OpRewindProc, OpFail, OpPop, OpRestorePos>>,
                   FALSE, r.captureParensIndex)
     ELSE Compiled(<<OpPushPos, OpPushProc>> \o codes0 \o <<OpRewindProc, OpRestorePos>>,
                   FALSE, r.captureParensIndex)

compileLookAhead(pattern, node, direction, advance, captureParensIndex) ==
  compileLookAround(pattern, node, "forward", advance, captureParensIndex)

compileLookBehind(pattern, node, direction, advance, captureParensIndex) ==
  compileLookAround(pattern, node, "backward", advance, captureParensIndex)

compileChar(pattern, node, direction, advance, captureParensIndex) ==
  Compiled(insertBack(direction, <<OpChar(node.value)>>), TRUE, captureParensIndex)

compileDot(pattern, node, direction, advance, captureParensIndex) ==
  Compiled(insertBack(direction, <<OpAny>>), TRUE, captureParensIndex)

compileBackRef(pattern, node, direction, advance, captureParensIndex) ==
  IF node.index < 1 \/ pattern.captureParens < node.index
  THEN Thrown("invalid back reference", captureParensIndex)
  ELSE Compiled(<<OpRef(direction, node.index)>>, FALSE, captureParensIndex)

compileNamedBackRef(pattern, node, direction, advance, captureParensIndex) ==
  IF node.name \notin DOMAIN pattern.names
  THEN Thrown("invalid named back reference", captureParensIndex)
  ELSE LET index == pattern.names[node.name]
       IN IF index < 1 \/ pattern.captureParens < index
          THEN Thrown("invalid named back reference", captureParensIndex)
          ELSE Compiled(<<OpRef(direction, index)>>, FALSE, captureParensIndex)

compileNode(pattern, node, direction, advance, captureParensIndex) ==
  CASE node.type = "Disjunction" ->
         compileDisjunction(pattern, node, direction, advance, captureParensIndex)
    [] node.type = "Sequence" ->
         compileSequence(pattern, node, direction, advance, captureParensIndex)
    [] node.type = "Capture" ->
         compileCapture(pattern, node, direction, advance, captureParensIndex)
    [] node.type = "NamedCapture" ->
         compileNamedCapture(pattern, node, direction, advance, captureParensIndex)
    [] node.type = "Group" ->
         compileNode(pattern, node.child, direction, advance, captureParensIndex)
    [] node.type = "Many" ->
         compileMany(pattern, node, direction, advance, captureParensIndex)
    [] node.type = "Some" ->
         compileSome(pattern, node, direction, advance, captureParensIndex)
    [] node.type = "Optional" ->
         compileOptional(pattern, node, direction, advance, captureParensIndex)
    [] node.type = "Repeat" ->
         compileRepeat(pattern, node, direction, advance, captureParensIndex)
    [] node.type = "WordBoundary" ->
         Compiled(<<[op |-> IF node.invert THEN "word_boundary_not" ELSE "word_boundary"]>>,
                  FALSE, captureParensIndex)
    [] node.type = "LineBegin" -> Compiled(<<OpLineBegin>>, FALSE, captureParensIndex)
    [] node.type = "LineEnd" -> Compiled(<<OpLineEnd>>, FALSE, captureParensIndex)
    [] node.type = "LookAhead" ->
         compileLookAhead(pattern, node, direction, advance, captureParensIndex)
    [] node.type = "LookBehind" ->
         compileLookBehind(pattern, node, direction, advance, captureParensIndex)
    [] node.type = "Char" ->
         compileChar(pattern, node, direction, advance, captureParensIndex)
    [] node.type = "Dot" ->
         compileDot(pattern, node, direction, advance, captureParensIndex)
    [] node.type = "BackRef" ->
         compileBackRef(pattern, node, direction, advance, captureParensIndex)
    [] node.type = "NamedBackRef" ->
         compileNamedBackRef(pattern, node, direction, advance, captureParensIndex)

\* Compiler.compile: the op-codes of the program, or the thrown error.
compile(pattern) ==
  LET r == compileNode(pattern, pattern.child, "forward", FALSE, 1)
  IN IF r.error # "" THEN r
     ELSE Compiled(<<OpCapBegin(0)>> \o r.codes \o <<OpCapEnd(0), OpMatch>>,
                   r.advance, r.captureParensIndex)

\* ---------------------------------------------------------------- patterns

a == Char(CharA)
b == Char(CharB)

NoNames == [n \in {} |-> 0]

\* new Parser(source).parse(): the AST, the number of capture parens and the name
\* map.  The flag set is chosen in Init.
Pattern(source, captureParens, names, child) ==
  [source |-> source, captureParens |-> captureParens, names |-> names, child |-> child]

\* Patterns whose loop body can match the empty string.
NullableLoops == <<
  Pattern("(a?)*", 1, NoNames, Many(Capture(1, Optional(a, FALSE)), FALSE)),
  Pattern("()*", 1, NoNames, Many(Capture(1, Sequence(<<>>)), FALSE)),
  Pattern("(a?)+", 1, NoNames, Some(Capture(1, Optional(a, FALSE)), FALSE)),
  Pattern("(a*){0,}", 1, NoNames, Repeat(Capture(1, Many(a, FALSE)), 0, Infinity, FALSE)),
  Pattern("(?:a?)*?b", 0, NoNames,
          Sequence(<<Many(Group(Optional(a, FALSE)), TRUE), b>>)),
  Pattern("(?:a|(?=b))+b", 0, NoNames,
          Sequence(<<Some(Group(Disjunction(<<a, LookAhead(b, FALSE)>>)), FALSE), b>>)),
  Pattern("(?:a?(?=a{1,3}))*?b", 0, NoNames,
          Sequence(<<Many(Group(Sequence(<<Optional(a, FALSE),
                                            LookAhead(Repeat(a, 1, 3, FALSE), FALSE)>>)),
                          TRUE), b>>))
>>

\* Greedy and non-greedy quantifiers, disjunctions.
Priorities == <<
  Pattern("a|ab", 0, NoNames, Disjunction(<<a, Sequence(<<a, b>>)>>)),
  Pattern("ab|a", 0, NoNames, Disjunction(<<Sequence(<<a, b>>), a>>)),
  Pattern("a?", 0, NoNames, Optional(a, FALSE)),
  Pattern("a??", 0, NoNames, Optional(a, TRUE)),
  Pattern("a*", 0, NoNames, Many(a, FALSE)),
  Pattern("a*?", 0, NoNames, Many(a, TRUE)),
  Pattern("a+", 0, NoNames, Some(a, FALSE)),
  Pattern("a+?", 0, NoNames, Some(a, TRUE)),
  Pattern("a{1,2}", 0, NoNames, Repeat(a, 1, 2, FALSE)),
  Pattern("a{1,2}?", 0, NoNames, Repeat(a, 1, 2, TRUE)),
  Pattern("a{1,}", 0, NoNames, Repeat(a, 1, Infinity, FALSE)),
  Pattern("a{1,}?", 0, NoNames, Repeat(a, 1, Infinity, TRUE)),
  Pattern("a{1,3}", 0, NoNames, Repeat(a, 1, 3, FALSE)),
  Pattern("a{1,3}?", 0, NoNames, Repeat(a, 1, 3, TRUE))
>>

\* Anchored counted repeats ^X{m,n}$.
Repeats == <<
  Pattern("^a{2}$", 0, NoNames, Sequence(<<LineBegin, Repeat(a, 2, Null, FALSE), LineEnd>>)),
  Pattern("^a{2,3}$", 0, NoNames, Sequence(<<LineBegin, Repeat(a, 2, 3, FALSE), LineEnd>>)),
  Pattern("^a{1,3}$", 0, NoNames, Sequence(<<LineBegin, Repeat(a, 1, 3, FALSE), LineEnd>>)),
  Pattern("^a{1,3}?$", 0, NoNames, Sequence(<<LineBegin, Repeat(a, 1, 3, TRUE), LineEnd>>)),
  Pattern("^a{0,2}$", 0, NoNames, Sequence(<<LineBegin, Repeat(a, 0, 2, FALSE), LineEnd>>)),
  Pattern("^(a){1,3}$", 1, NoNames,
          Sequence(<<LineBegin, Repeat(Capture(1, a), 1, 3, FALSE), LineEnd>>)),
  Pattern("^(b?){0,3}$", 1, NoNames,
          Sequence(<<LineBegin, Repeat(Capture(1, Optional(b, FALSE)), 0, 3, FALSE),
                     LineEnd>>)),
  Pattern("^(?:a{1,3}b?){2}$", 0, NoNames,
          Sequence(<<LineBegin,
                     Repeat(Group(Sequence(<<Repeat(a, 1, 3, FALSE), Optional(b, FALSE)>>)),
                            2, Null, FALSE),
                     LineEnd>>))
>>

\* Capture groups inside loops.
LoopCaptures == <<
  Pattern("^(?:(a)|(b))*\\1$", 2, NoNames,
          Sequence(<<LineBegin,
                     Many(Group(Disjunction(<<Capture(1, a), Capture(2, b)>>)), FALSE),
                     BackRef(1), LineEnd>>)),
  Pattern("^(?:(a)|(b))+$", 2, NoNames,
          Sequence(<<LineBegin,
                     Some(Group(Disjunction(<<Capture(1, a), Capture(2, b)>>)), FALSE),
                     LineEnd>>)),
  Pattern("^(?:(a)|(b)){2,}$", 2, NoNames,
          Sequence(<<LineBegin,
                     Repeat(Group(Disjunction(<<Capture(1, a), Capture(2, b)>>)),
                            2, Infinity, FALSE),
                     LineEnd>>)),
  Pattern("^(?:(a)|(b)){1,2}$", 2, NoNames,
          Sequence(<<LineBegin,
                     Repeat(Group(Disjunction(<<Capture(1, a), Capture(2, b)>>)),
                            1, 2, FALSE),
                     LineEnd>>))
>>

\* Look-around assertions.
LookArounds == <<
  Pattern("^(?=ab).+$", 0, NoNames,
          Sequence(<<LineBegin, LookAhead(Sequence(<<a, b>>), FALSE), Some(Dot, FALSE),
                     LineEnd>>)),
  Pattern("^(?!ab).+$", 0, NoNames,
          Sequence(<<LineBegin, LookAhead(Sequence(<<a, b>>), TRUE), Some(Dot, FALSE),
                     LineEnd>>)),
  Pattern("^.+(?<=ab)$", 0, NoNames,
          Sequence(<<LineBegin, Some(Dot, FALSE), LookBehind(Sequence(<<a, b>>), FALSE),
                     LineEnd>>)),
  Pattern("^.+(?<!ab)$", 0, NoNames,
          Sequence(<<LineBegin, Some(Dot, FALSE), LookBehind(Sequence(<<a, b>>), TRUE),
                     LineEnd>>)),
  Pattern("^(?=(a+))\\1$", 1, NoNames,
          Sequence(<<LineBegin, LookAhead(Capture(1, Some(a, FALSE)), FALSE), BackRef(1),
                     LineEnd>>)),
  Pattern("a*?(?=(a|ab))b", 1, NoNames,
          Sequence(<<Many(a, TRUE),
                     LookAhead(Capture(1, Disjunction(<<a, Sequence(<<a, b>>)>>)), FALSE),
                     b>>)),
  Pattern("a*(?!(a)|bb)b", 1, NoNames,
          Sequence(<<Many(a, FALSE),
                     LookAhead(Disjunction(<<Capture(1, a), Sequence(<<b, b>>)>>), TRUE),
                     b>>)),
  Pattern(".*?(?<!(a)b|bb).", 1, NoNames,
          Sequence(<<Many(Dot, TRUE),
                     LookBehind(Disjunction(<<Sequence(<<Capture(1, a), b>>),
                                              Sequence(<<b, b>>)>>), TRUE),
                     Dot>>)),
  Pattern("(?=a{1,3})", 0, NoNames, LookAhead(Repeat(a, 1, 3, FALSE), FALSE)),
  Pattern("b*(?!a{1,3})", 0, NoNames,
          Sequence(<<Many(b, FALSE), LookAhead(Repeat(a, 1, 3, FALSE), TRUE)>>))
>>

\* Back-references and captures in backward direction.
BackRefs == <<
  Pattern("^\\1(a)$", 1, NoNames, Sequence(<<LineBegin, BackRef(1), Capture(1, a), LineEnd>>)),
  Pattern("(a|b)\\1", 1, NoNames,
          Sequence(<<Capture(1, Disjunction(<<a, b>>)), BackRef(1)>>)),
  Pattern("^(.+?)\\1$", 1, NoNames,
          Sequence(<<LineBegin, Capture(1, Some(Dot, TRUE)), BackRef(1), LineEnd>>)),
  Pattern("^.*(?<=\\1(ab?))$", 1, NoNames,
          Sequence(<<LineBegin, Many(Dot, FALSE),
                     LookBehind(Sequence(<<BackRef(1),
                                           Capture(1, Sequence(<<a, Optional(b, FALSE)>>))>>),
                                FALSE),
                     LineEnd>>)),
  Pattern("^.*(?<=\\k<n>(?<n>a))$", 1, [n \in {"n"} |-> 1],
          Sequence(<<LineBegin, Many(Dot, FALSE),
                     LookBehind(Sequence(<<NamedBackRef("n"), NamedCapture("n", a)>>), FALSE),
                     LineEnd>>)),
  Pattern("(?<n>a)\\k<n>", 1, [n \in {"n"} |-> 1],
          Sequence(<<NamedCapture("n", a), NamedBackRef("n")>>)),
  Pattern("(a\\1)b", 1, NoNames,
          Sequence(<<Capture(1, Sequence(<<a, BackRef(1)>>)), b>>))
>>

\* Look-arounds and counted loops one after the other, or one in the other.
StackDepths == <<
  Pattern("(?!a)(?=(?=b))", 0, NoNames,
          Sequence(<<LookAhead(a, TRUE), LookAhead(LookAhead(b, FALSE), FALSE)>>)),
  Pattern("(?=a)(?=(?=a))", 0, NoNames,
          Sequence(<<LookAhead(a, FALSE), LookAhead(LookAhead(a, FALSE), FALSE)>>)),
  Pattern("(?!b)(?:(?=a)a?)*", 0, NoNames,
          Sequence(<<LookAhead(b, TRUE),
                     Many(Group(Sequence(<<LookAhead(a, FALSE), Optional(a, FALSE)>>)),
                          FALSE)>>)),
  Pattern("a{1,3}b{1,3}", 0, NoNames,
          Sequence(<<Repeat(a, 1, 3, FALSE), Repeat(b, 1, 3, FALSE)>>))
>>

\* Loops whose body is emitted without the push_pos / empty_check pair.
AdvancingLoops == <<
  Pattern("(?:a(?=b))*", 0, NoNames,
          Many(Group(Sequence(<<a, LookAhead(b, FALSE)>>)), FALSE)),
  Pattern("aa(?:a(?<=a{1,3}))*", 0, NoNames,
          Sequence(<<a, a, Many(Group(Sequence(<<a, LookBehind(Repeat(a, 1, 3, FALSE), FALSE)>>)),
                                FALSE)>>))
>>

Patterns ==
  NullableLoops \o Priorities \o Repeats \o LoopCaptures \o LookArounds \o BackRefs
  \o StackDepths \o AdvancingLoops

\* new Compiler(pattern).compile() for every modelled pattern.
Programs == [p \in 1..Len(Patterns) |-> compile(Patterns[p])]

\* ------------------------------------------------- JavaScript semantics

Max(x, y) == IF x >= y THEN x ELSE y
Min(x, y) == IF x <= y THEN x ELSE y

\* ToIntegerOrInfinity of an index argument: undefined and NaN become 0.
ToInteger(v) == IF IsNumber(v) THEN v ELSE 0

\* `v + k` and `v - k`: NaN as soon as v is not a number.
JSPlus(v, k) == IF IsNumber(v) THEN v + k ELSE NaN

\* `x === y`, `x < y`, `x > y` on numbers and undefined.
StrictEquals(x, y) == x # NaN /\ x = y
JSLess(x, y) == IsNumber(x) /\ IsNumber(y) /\ x < y
JSGreater(x, y) == IsNumber(x) /\ IsNumber(y) /\ x > y

\* String.prototype.slice on a sequence of code points.
slice(s, begin, end) ==
  LET len == Len(s)
      relStart == ToInteger(begin)
      relEnd == IF end = Undefined THEN len ELSE ToInteger(end)
      from == IF relStart < 0 THEN Max(len + relStart, 0) ELSE Min(relStart, len)
      to == IF relEnd < 0 THEN Max(len + relEnd, 0) ELSE Min(relEnd, len)
  IN IF from >= to THEN <<>> ELSE SubSeq(s, from + 1, to)

\* A JavaScript array is a function from its keys: 0..length-1 (a hole reads as
\* undefined, as does any key that is absent) and whatever other properties
\* were assigned (a negative "index" is an ordinary property).
ArrayGet(arr, i) == IF i \in DOMAIN arr THEN arr[i] ELSE Undefined

ArraySet(arr, i, v) ==
  [k \in DOMAIN arr \cup (IF i >= 0 THEN 0..i ELSE {i}) |->
     IF k = i THEN v ELSE IF k \in DOMAIN arr THEN arr[k] ELSE Undefined]

\* Array.from copies the indices 0..length-1 only.
ArrayFrom(arr) == [k \in {j \in DOMAIN arr : j >= 0} |-> arr[k]]

\* ---------------------------------------------------------------- program

\* s[i] as a code point (the unicode flag is off: charCodeAt, NaN gives -1).
index(s, i) ==
  LET k == ToInteger(i)
  IN IF 0 <= k /\ k < Len(s) THEN s[k + 1] ELSE -1

prevIndex(s, i) == index(s, JSPlus(i, -1))

size(c) == IF c >= 65536 THEN 2 ELSE 1

isLineTerminator(c) == c \in {10, 13, 8232, 8233}

RECURSIVE StackWalk(_, _, _)
StackWalk(codes, stackSize, maxStackSize) ==
  IF codes = <<>> THEN maxStackSize
  ELSE LET op == Head(codes).op
           stackSize1 == IF op \in {"push", "push_pos", "push_proc"} THEN stackSize + 1
                         ELSE IF op \in {"empty_check", "pop", "restore_pos", "rewind_proc"}
                              THEN stackSize - 1
                              ELSE stackSize
       IN StackWalk(Tail(codes), stackSize1, Max(stackSize1, maxStackSize))

calculateMaxStackSize(codes) == StackWalk(codes, 0, 0)

Proc(pos_, pc, stack, stackSize, caps) ==
  [pos |-> pos_, pc |-> pc, stack |-> stack, stackSize |-> stackSize, caps |-> caps]

clone(proc) ==
  Proc(proc.pos, proc.pc, ArrayFrom(proc.stack), proc.stackSize, ArrayFrom(proc.caps))

\* A slot of the array `procs` holds a Proc object, or nothing (a hole left by
\* `procs.length = n` with n beyond the length), or the very object that a
\* lower slot holds (`procs[n - 1] = proc` while proc is still in its old slot).
\* An object is stored in the lowest slot that holds it; the others refer to
\* that slot.
Hole == [hole |-> TRUE]
Alias(slot) == [alias |-> slot]
IsHole(x) == DOMAIN x = {"hole"}
IsAlias(x) == DOMAIN x = {"alias"}

Owner(ps, i) == IF IsAlias(ps[i]) THEN ps[i].alias ELSE i

\* Writes through the reference in the top slot.
Store(ps, proc) == [ps EXCEPT ![Owner(ps, Len(ps))] = proc]

\* procs.pop()
Pop(ps) == SubSeq(ps, 1, Len(ps) - 1)

\* procs.length = n; procs[procs.length - 1] = proc, where proc is the object
\* in the top slot of ps.
Rewind(ps, n) ==
  LET o == Owner(ps, Len(ps))
      proc == ps[o]
  IN IF n = 0 THEN <<>>
     ELSE IF n <= Len(ps)
     THEN [i \in 1..n |-> IF i < n THEN ps[i]
                          ELSE IF o < n THEN Alias(o) ELSE proc]
     ELSE [i \in 1..n |-> IF i <= Len(ps) THEN ps[i]
                          ELSE IF i < n THEN Hole ELSE Alias(o)]

\* The `while (i < s.length)` loop of `ref`: the final pos and whether the
\* thread backtracks.
RECURSIVE RefLoop(_, _, _, _)
RefLoop(str, s, i, p) ==
  IF i < Len(s)
  THEN LET c == index(str, p)
           d == index(s, i)
       IN IF c # d THEN [pos |-> p, backtrack |-> TRUE]
          ELSE RefLoop(str, s, i + size(d), JSPlus(p, size(c)))
  ELSE [pos |-> p, backtrack |-> FALSE]

\* The `while (i > 0)` loop of `ref_back`.
RECURSIVE RefBackLoop(_, _, _, _)
RefBackLoop(str, s, i, p) ==
  IF i > 0
  THEN LET c == prevIndex(str, p)
           d == prevIndex(s, i)
       IN IF c # d THEN [pos |-> p, backtrack |-> TRUE]
          ELSE RefBackLoop(str, s, i - size(d), JSPlus(p, -size(c)))
  ELSE [pos |-> p, backtrack |-> FALSE]

\* ------------------------------------------------------------------ state

VARIABLES
  pat,      \* the Program: which of Patterns it was compiled from
  sticky,   \* pattern.flagSet.sticky
  input,    \* exec's argument `input`, a sequence of code points
  pos0,     \* exec's argument `pos`
  pos,      \* exec's variable `pos`
  procs,    \* exec's variable `procs`
  status,   \* where exec is: "scan" at the outer loop's condition, "run" in the
            \* inner loop, "matched" / "null" after it returned, "threw" after
            \* it threw, "exhausted" when the model stopped following it, "idle"
            \* when exec is not what runs
  result,   \* the caps of the returned Match
  tried,    \* history: the positions a start thread was created at
  frames,   \* history: the look-arounds entered and not yet left
  entered   \* history: for each slot of procs, the pos at which its thread
            \* last passed each fork (an iteration of a loop begins at its fork)

VARIABLES
  parser,   \* a Parser: the constructor's source, flags and additional
  parsed,   \* the outcome of parser.parse()
  program,  \* the outcome of new Compiler(pattern).compile() on the parsed pattern
  printed   \* the outcome of patternToString on the parsed pattern

VARIABLES
  data,     \* a CharSet: its field `data`
  model     \* history: the code points of Sample the set should hold

VARIABLES
  match,    \* a Match: its fields input, caps and names
  got       \* the last accessor called on it, and what it returned

VARIABLES
  arrays,   \* the number[] objects: arrays[id] is what the array holds now
  category, \* the table `category` of data/unicode: the array of each value
  CACHE,    \* unicode.ts CACHE: the CharSet (its data array) of each key
  space,    \* char-class `space`, `invertSpace`: their data arrays
  returned, \* the data array of the CharSet the last call returned
  set1,     \* a CharSet: its data array
  set2      \* the CharSet clone() returned: its data array

VARIABLES
  regexp,   \* a RegExpCompat: its flag global and its lastIndex (its pattern,
            \* program and flag sticky are pat and sticky)
  call      \* the method of regexp that runs, its argument and its locals

execVars == <<pat, sticky, input, pos0, pos, procs, status, result, tried, frames, entered>>
syntaxVars == <<parser, parsed, program, printed>>
charSetVars == <<data, model>>
matchVars == <<match, got>>

heapVars == <<arrays, category, CACHE, space, returned, set1, set2>>
compatVars == <<regexp, call>>

vars == <<execVars, syntaxVars, charSetVars, matchVars, heapVars, compatVars>>

\* An outcome not there yet.
Pending == [outcome |-> "pending"]

\* What the variables of a part hold while another part runs.
ExecIdle ==
  /\ pat = 1 /\ sticky = FALSE /\ input = <<>> /\ pos0 = 0 /\ pos = 0
  /\ procs = <<>> /\ status = "idle" /\ result = <<>> /\ tried = <<>> /\ frames = <<>>
  /\ entered = <<>>

SyntaxIdle ==
  /\ parser = [source |-> <<>>, flags |-> <<>>, additional |-> TRUE]
  /\ parsed = Pending /\ program = Pending /\ printed = Pending

CharSetIdle == data = <<>> /\ model = {}

MatchIdle ==
  /\ match = [input |-> <<>>, caps |-> <<>>, names |-> <<>>]
  /\ got = Pending

HeapIdle ==
  /\ arrays = <<>> /\ category = <<>> /\ CACHE = <<>> /\ space = Pending
  /\ returned = 0 /\ set1 = 0 /\ set2 = 0

CompatIdle ==
  /\ regexp = [global |-> FALSE, lastIndex |-> 0]
  /\ call = Pending

pattern == Patterns[pat]
codes == Programs[pat].codes
maxStackSize == calculateMaxStackSize(codes)
captureParens == pattern.captureParens

createProc(p) ==
  LET capsLength == (captureParens + 1) * 2
      caps == [i \in 0..(capsLength - 1) |-> -1]
      stack == [i \in 0..(maxStackSize - 1) |-> 0]
  IN Proc(p, 0, stack, 0, caps)

\* All strings over Alphabet up to MaxLen.
Strings == UNION {[1..n -> Alphabet] : n \in 0..MaxLen}

Init ==
  /\ pat \in {p \in DOMAIN Patterns : Programs[p].error = ""}
  /\ sticky \in BOOLEAN
  /\ input \in Strings
  /\ pos0 \in 0..Min(MaxPos, Len(input) + 1)
  /\ pos = pos0
  /\ procs = <<>>
  /\ status = "scan"
  /\ result = <<>>
  /\ tried = <<>>
  /\ frames = <<>>
  /\ entered = <<>>
  /\ SyntaxIdle /\ CharSetIdle /\ MatchIdle /\ HeapIdle /\ CompatIdle

\* ---------------------------------------------------------------- history

\* A look-around entered at `push_proc`: the slot of the entering thread, its
\* pos and caps, and the thread list below it.
Frame(proc) ==
  [depth |-> Len(procs), pos |-> proc.pos, caps |-> proc.caps,
   below |-> SubSeq(procs, 1, Len(procs) - 1)]

\* The frames whose entering slot is still in a list of n threads.
TrimFrames(fs, n) == SelectSeq(fs, LAMBDA f : f.depth <= n)

\* ------------------------------------------------------------------- exec

Finished == status \in {"matched", "null", "threw", "exhausted"}

\* `while (pos <= input.length)` holds: procs.push(this.createProc(pos)).
Begin ==
  /\ status = "scan"
  /\ pos <= Len(input)
  /\ procs' = <<createProc(pos)>>
  /\ status' = "run"
  /\ tried' = Append(tried, pos)
  /\ entered' = << <<>> >>
  /\ UNCHANGED <<pat, sticky, input, pos0, pos, result, frames>>
  /\ UNCHANGED <<syntaxVars, charSetVars, matchVars, heapVars, compatVars>>

\* The outer loop's condition fails: `return null`.
ReturnNull ==
  /\ status = "scan"
  /\ pos > Len(input)
  /\ status' = "null"
  /\ UNCHANGED <<pat, sticky, input, pos0, pos, procs, result, tried, frames, entered>>
  /\ UNCHANGED <<syntaxVars, charSetVars, matchVars, heapVars, compatVars>>

\* A defect: the outer loop advances by two positions.
AdvanceByTwo ==
  /\ status = "run"
  /\ procs = <<>>
  /\ IF sticky
     THEN status' = "null" /\ pos' = pos
     ELSE status' = "scan" /\ pos' = pos + 2 * size(index(input, pos))
  /\ UNCHANGED <<pat, sticky, input, pos0, procs, result, tried, frames, entered>>
  /\ UNCHANGED <<syntaxVars, charSetVars, matchVars, heapVars, compatVars>>

\* A defect: the outer loop does not break when sticky.
AdvanceAlways ==
  /\ status = "run"
  /\ procs = <<>>
  /\ status' = "scan"
  /\ pos' = pos + size(index(input, pos))
  /\ UNCHANGED <<pat, sticky, input, pos0, procs, result, tried, frames, entered>>
  /\ UNCHANGED <<syntaxVars, charSetVars, matchVars, heapVars, compatVars>>

\* The inner loop ended with no thread left: break when sticky, else move on.
Advance ==
  /\ status = "run"
  /\ procs = <<>>
  /\ IF sticky
     THEN status' = "null" /\ pos' = pos
     ELSE status' = "scan" /\ pos' = pos + size(index(input, pos))
  /\ UNCHANGED <<pat, sticky, input, pos0, procs, result, tried, frames, entered>>
  /\ UNCHANGED <<syntaxVars, charSetVars, matchVars, heapVars, compatVars>>

\* const proc = procs[procs.length - 1]; const code = this.codes[proc.pc];
Fetchable ==
  /\ status = "run"
  /\ procs # <<>>
  /\ ~IsHole(procs[Len(procs)])
  /\ procs[Owner(procs, Len(procs))].pc \in 0..(Len(codes) - 1)

\* The thread after `proc.pc++`, and the op-code it was at.
proc == [procs[Owner(procs, Len(procs))] EXCEPT !.pc = @ + 1]
code == codes[proc.pc]

At(ops) == Fetchable /\ code.op \in ops

\* What the thread that ran has passed, after this op-code: a fork, the head
\* of a loop or not, is passed at the thread's pos.
Begun ==
  IF code.op \in {"fork_cont", "fork_next"}
  THEN ((proc.pc - 1) :> proc.pos) @@ entered[Len(procs)]
  ELSE entered[Len(procs)]

\* The rest of an iteration of the inner loop: the list after the switch.  The
\* thread that ran stays in its slot and is in the top slot of the new list,
\* itself or its clone; the other slots keep their threads.
Step(newProcs, newFrames) ==
  /\ procs' = newProcs
  /\ frames' = TrimFrames(newFrames, Len(procs'))
  /\ \E begun \in {Begun}, slot \in {Owner(procs, Len(procs))}, n \in {Len(procs')} :
       entered' = [i \in 1..n |-> IF i = n \/ i = slot THEN begun
                                  ELSE IF i <= Len(entered) THEN entered[i] ELSE <<>>]
  /\ UNCHANGED <<pat, sticky, input, pos0, pos, status, result, tried>>
  /\ UNCHANGED <<syntaxVars, charSetVars, matchVars, heapVars, compatVars>>

Continue(newProc) == Step(Store(procs, newProc), frames)

\* backtrack = true: the object keeps what the switch did to it, its slot goes.
Backtrack(newProc) ==
  /\ procs' = Pop(Store(procs, newProc))
  /\ frames' = TrimFrames(frames, Len(procs'))
  /\ entered' = SubSeq([entered EXCEPT ![Owner(procs, Len(procs))] = Begun],
                       1, Len(procs) - 1)
  /\ UNCHANGED <<pat, sticky, input, pos0, pos, status, result, tried>>
  /\ UNCHANGED <<syntaxVars, charSetVars, matchVars, heapVars, compatVars>>

\* A TypeError (proc or code is undefined) or a RangeError (invalid length).
Throw ==
  /\ status' = "threw"
  /\ UNCHANGED <<pat, sticky, input, pos0, pos, procs, result, tried, frames, entered>>
  /\ UNCHANGED <<syntaxVars, charSetVars, matchVars, heapVars, compatVars>>

\* The model stops following a thread whose stack outgrows MaxStack.
Exhaust ==
  /\ status' = "exhausted"
  /\ UNCHANGED <<pat, sticky, input, pos0, pos, procs, result, tried, frames, entered>>
  /\ UNCHANGED <<syntaxVars, charSetVars, matchVars, heapVars, compatVars>>

TypeError ==
  /\ status = "run"
  /\ procs # <<>>
  /\ ~Fetchable
  /\ Throw

ExecAny ==
  /\ At({"any"})
  /\ LET c == index(input, proc.pos)
     IN IF c >= 0 /\ ~isLineTerminator(c)
        THEN Continue([proc EXCEPT !.pos = JSPlus(@, size(c))])
        ELSE Backtrack(proc)

ExecBack ==
  /\ At({"back"})
  /\ LET c == prevIndex(input, proc.pos)
     IN IF c >= 0
        THEN Continue([proc EXCEPT !.pos = JSPlus(@, -size(c))])
        ELSE Backtrack(proc)

ExecCapBegin ==
  /\ At({"cap_begin"})
  /\ Continue([proc EXCEPT !.caps = ArraySet(@, code.index * 2, proc.pos)])

ExecCapEnd ==
  /\ At({"cap_end"})
  /\ Continue([proc EXCEPT !.caps = ArraySet(@, code.index * 2 + 1, proc.pos)])

ExecCapReset ==
  /\ At({"cap_reset"})
  /\ Continue([proc EXCEPT !.caps =
                 [k \in DOMAIN @ |-> IF code.from * 2 <= k /\ k < code.to * 2
                                     THEN -1 ELSE @[k]]])

ExecChar ==
  /\ At({"char"})
  /\ LET c == index(input, proc.pos)
     IN IF c = code.value
        THEN IF c < 0 THEN Backtrack([proc EXCEPT !.pos = JSPlus(@, size(c))])
             ELSE Continue([proc EXCEPT !.pos = JSPlus(@, size(c))])
        ELSE Backtrack(proc)

ExecDec ==
  /\ At({"dec"})
  /\ Continue([proc EXCEPT !.stack =
                 ArraySet(@, proc.stackSize - 1,
                          JSPlus(ArrayGet(@, proc.stackSize - 1), -1))])

ExecEmptyCheck ==
  /\ At({"empty_check"})
  /\ LET proc1 == [proc EXCEPT !.stackSize = @ - 1]
         p == ArrayGet(proc1.stack, proc1.stackSize)
     IN IF StrictEquals(p, proc1.pos) THEN Backtrack(proc1) ELSE Continue(proc1)

ExecFail ==
  /\ At({"fail"})
  /\ Backtrack(proc)

\* A defect: the thread pushed is the forking thread itself, not a clone.
ExecForkShared ==
  /\ At({"fork_cont", "fork_next"})
  /\ Step(Append(Store(procs, [proc EXCEPT !.pc = @ + code.next]),
                 Alias(Owner(procs, Len(procs)))),
          frames)

\* A defect: the two fork op-codes mixed up.
ExecForkSwapped ==
  /\ At({"fork_cont", "fork_next"})
  /\ LET newProc == clone(proc)
     IN IF code.op = "fork_next"
        THEN Step(Append(Store(procs, [proc EXCEPT !.pc = @ + code.next]), newProc),
                  frames)
        ELSE Step(Append(Store(procs, proc), [newProc EXCEPT !.pc = @ + code.next]),
                  frames)

ExecFork ==
  /\ At({"fork_cont", "fork_next"})
  /\ LET newProc == clone(proc)
     IN IF code.op = "fork_cont"
        THEN Step(Append(Store(procs, [proc EXCEPT !.pc = @ + code.next]), newProc),
                  frames)
        ELSE Step(Append(Store(procs, proc), [newProc EXCEPT !.pc = @ + code.next]),
                  frames)

ExecJump ==
  /\ At({"jump"})
  /\ Continue([proc EXCEPT !.pc = @ + code.cont])

ExecLineBegin ==
  /\ At({"line_begin"})
  /\ IF ~StrictEquals(proc.pos, 0) THEN Backtrack(proc) ELSE Continue(proc)

ExecLineEnd ==
  /\ At({"line_end"})
  /\ IF ~StrictEquals(proc.pos, Len(input)) THEN Backtrack(proc) ELSE Continue(proc)

ExecLoop ==
  /\ At({"loop"})
  /\ LET n == ArrayGet(proc.stack, proc.stackSize - 1)
     IN IF JSGreater(n, 0)
        THEN Continue([proc EXCEPT !.pc = @ + code.cont])
        ELSE Continue(proc)

\* return new Match(input, proc.caps, this.names)
ExecMatch ==
  /\ At({"match"})
  /\ status' = "matched"
  /\ result' = proc.caps
  /\ UNCHANGED <<pat, sticky, input, pos0, pos, procs, tried, frames, entered>>
  /\ UNCHANGED <<syntaxVars, charSetVars, matchVars, heapVars, compatVars>>

ExecPop ==
  /\ At({"pop"})
  /\ Continue([proc EXCEPT !.stackSize = @ - 1])

\* proc.stack[proc.stackSize++] = value
PushValue(value, newFrames) ==
  IF proc.stackSize >= MaxStack THEN Exhaust
  ELSE Step(Store(procs, [proc EXCEPT !.stack = ArraySet(@, proc.stackSize, value),
                                      !.stackSize = @ + 1]),
            newFrames)

ExecPush ==
  /\ At({"push"})
  /\ PushValue(code.value, frames)

ExecPushPos ==
  /\ At({"push_pos"})
  /\ PushValue(proc.pos, frames)

ExecPushProc ==
  /\ At({"push_proc"})
  /\ PushValue(Len(procs), Append(frames, Frame(proc)))

\* A defect: an unset offset is not checked for.
CapturedUnchecked(index_) ==
  slice(input, proc.caps[index_ * 2], proc.caps[index_ * 2 + 1])

\* The captured string of `ref` and `ref_back`.
Captured(index_) ==
  LET begin == proc.caps[index_ * 2]
      end == proc.caps[index_ * 2 + 1]
  IN IF JSLess(begin, 0) \/ JSLess(end, 0) THEN <<>> ELSE slice(input, begin, end)

ExecRef ==
  /\ At({"ref"})
  /\ LET r == RefLoop(input, Captured(code.index), 0, proc.pos)
     IN IF r.backtrack
        THEN Backtrack([proc EXCEPT !.pos = r.pos])
        ELSE Continue([proc EXCEPT !.pos = r.pos])

ExecRefBack ==
  /\ At({"ref_back"})
  /\ LET s == Captured(code.index)
         r == RefBackLoop(input, s, Len(s), proc.pos)
     IN IF r.backtrack
        THEN Backtrack([proc EXCEPT !.pos = r.pos])
        ELSE Continue([proc EXCEPT !.pos = r.pos])

\* Leaving a look-around pops its frame.
ExecRestorePos ==
  /\ At({"restore_pos"})
  /\ LET proc1 == [proc EXCEPT !.stackSize = @ - 1]
     IN Step(Store(procs, [proc1 EXCEPT !.pos = ArrayGet(proc1.stack, proc1.stackSize)]),
             IF frames = <<>> THEN frames ELSE SubSeq(frames, 1, Len(frames) - 1))

ExecRewindProc ==
  /\ At({"rewind_proc"})
  /\ LET proc1 == [proc EXCEPT !.stackSize = @ - 1]
         n == ArrayGet(proc1.stack, proc1.stackSize)
     IN IF ~IsNumber(n) \/ n < 0 THEN Throw
        ELSE Step(Rewind(Store(procs, proc1), n), frames)

Next ==
  \/ Begin
  \/ ReturnNull
  \/ Advance
  \/ TypeError
  \/ ExecAny
  \/ ExecBack
  \/ ExecCapBegin
  \/ ExecCapEnd
  \/ ExecCapReset
  \/ ExecChar
  \/ ExecDec
  \/ ExecEmptyCheck
  \/ ExecFail
  \/ ExecFork
  \/ ExecJump
  \/ ExecLineBegin
  \/ ExecLineEnd
  \/ ExecLoop
  \/ ExecMatch
  \/ ExecPop
  \/ ExecPush
  \/ ExecPushPos
  \/ ExecPushProc
  \/ ExecRef
  \/ ExecRefBack
  \/ ExecRestorePos
  \/ ExecRewindProc

Spec == Init /\ [][Next]_vars

\* ------------------------------------------------------------ properties

InGroup(group) == \E i \in DOMAIN group : group[i].source = pattern.source

Returned == status \in {"matched", "null"}

\* The thread a slot holds.
ProcAt(ps, i) == ps[Owner(ps, i)]

\* The op-codes before and after the one being executed.
PrevOp == IF proc.pc >= 2 THEN codes[proc.pc - 1].op ELSE "none"
NextOp == IF proc.pc < Len(codes) THEN codes[proc.pc + 1].op ELSE "none"

LastFrame == frames[Len(frames)]

\* C1: exec terminates on every input for every pattern whose loop body can
\* match the empty string: no thread iterates forever at one position, the
\* thread list empties or `match` fires.  Every step of exec either ends it or
\* leads to one next step, so a run ends in one of these two ways unless it
\* throws or goes on to outgrow any stack (the model follows it up to MaxStack,
\* beyond what a returning run of the modelled patterns uses).
C1_NullableLoopsTerminate ==
  InGroup(NullableLoops) => status \notin {"threw", "exhausted"}

\* Where a pattern of Priorities can match: anywhere if it can match the empty
\* string, else where an 'a' stands.
NeedsA(node) ==
  \/ node.type \in {"Disjunction", "Some"}
  \/ node.type = "Repeat" /\ node.min >= 1

CanMatchAt(p) ==
  /\ p <= Len(input)
  /\ NeedsA(pattern.child) => p < Len(input) /\ input[p + 1] = CharA

\* C2: without sticky, exec tries pos0, pos0 + 1, ... up to |input| in
\* increasing order, each with a fresh thread; it returns the match at the least
\* start position that can match, with index equal to that position, and null
\* if and only if no start position in the range matches (in particular when
\* pos0 > |input|).
C2_LeastStartPosition ==
  /\ (status = "run" /\ Len(procs) = 1 /\ ~IsHole(procs[1]) /\ procs[1].pc = 0)
       => /\ tried # <<>>
          /\ procs[1] = Proc(tried[Len(tried)], 0,
                             [i \in 0..(maxStackSize - 1) |-> 0], 0,
                             [i \in 0..(2 * captureParens + 1) |-> -1])
  /\ (~sticky /\ Returned)
       => /\ tried = [i \in 1..Len(tried) |-> pos0 + i - 1]
          /\ Len(tried) <= Max(0, Len(input) - pos0 + 1)
          /\ status = "null" => Len(tried) = Max(0, Len(input) - pos0 + 1)
          /\ status = "matched" => tried # <<>> /\ result[0] = tried[Len(tried)]
          /\ InGroup(Priorities) =>
               /\ status = "matched" <=> \E p \in pos0..Len(input) : CanMatchAt(p)
               /\ status = "matched" =>
                    /\ CanMatchAt(result[0])
                    /\ \A q \in pos0..(result[0] - 1) : ~CanMatchAt(q)

\* A match found after two start positions failed.
C2_Witness ==
  /\ ~sticky
  /\ status = "matched"
  /\ InGroup(Priorities)
  /\ Len(tried) >= 3
  /\ result[0] = pos0 + 2

\* C3: with sticky, exec returns a match if and only if the program matches at
\* exactly pos0, the match's index is pos0, and no later start position is ever
\* tried.
C3_StickyTriesOnePosition ==
  sticky =>
    /\ Len(tried) <= 1
    /\ tried # <<>> => tried[1] = pos0
    /\ status = "matched" => result[0] = pos0
    /\ (InGroup(Priorities) /\ Finished) =>
         /\ Returned
         /\ status = "matched" <=> CanMatchAt(pos0)

\* A sticky run that returned null although a later position matches.
C3_Witness ==
  /\ sticky
  /\ status = "null"
  /\ InGroup(Priorities)
  /\ tried = <<pos0>>
  /\ ~CanMatchAt(pos0)
  /\ \E p \in (pos0 + 1)..Len(input) : CanMatchAt(p)

\* The number of 'a's that stand at p, p + 1, ...
RECURSIVE CountA(_)
CountA(p) == IF p < Len(input) /\ input[p + 1] = CharA THEN 1 + CountA(p + 1) ELSE 0

\* The literal a Char, or a Sequence of Chars, stands for.
Literal(node) ==
  IF node.type = "Char" THEN <<node.value>>
  ELSE [i \in 1..Len(node.children) |-> node.children[i].value]

StandsAt(w, p) == p + Len(w) <= Len(input) /\ SubSeq(input, p + 1, p + Len(w)) = w

\* Where the highest-priority match of a pattern of Priorities, started at p,
\* ends: a Disjunction takes its first alternative that matches, a greedy
\* quantifier as many 'a's as there are and it may take, a non-greedy one as
\* few as it must.
PriorityEnd(node, p) ==
  IF node.type = "Disjunction"
  THEN LET first == CHOOSE i \in 1..Len(node.children) :
                      /\ StandsAt(Literal(node.children[i]), p)
                      /\ \A j \in 1..(i - 1) : ~StandsAt(Literal(node.children[j]), p)
       IN p + Len(Literal(node.children[first]))
  ELSE LET least == CASE node.type \in {"Optional", "Many"} -> 0
                      [] node.type = "Some" -> 1
                      [] node.type = "Repeat" -> node.min
           most == CASE node.type = "Optional" -> 1
                     [] node.type \in {"Many", "Some"} -> Infinity
                     [] node.type = "Repeat" -> node.max
       IN IF node.nonGreedy THEN p + least ELSE p + Min(CountA(p), most)

\* What a fork does to the thread list: the clone goes on top, it and the
\* forking thread differ in pc only, and nothing below changes.
C4_ForkStep ==
  At({"fork_cont", "fork_next"}) =>
    LET n == Len(procs)
        first == IF code.op = "fork_cont" THEN proc.pc ELSE proc.pc + code.next
        second == IF code.op = "fork_cont" THEN proc.pc + code.next ELSE proc.pc
    IN /\ Len(procs') = n + 1
       /\ procs'[n + 1] = [clone(proc) EXCEPT !.pc = first]
       /\ ProcAt(procs', n) = [proc EXCEPT !.pc = second]
       /\ \A i \in 1..(n - 1) : i # Owner(procs, n) => procs'[i] = procs[i]

\* C4: the VM explores alternatives in priority order.  After fork_cont the
\* thread at the next op-code is on top (it runs first) and the thread at the
\* fork target is below it; after fork_next it is the other way round.  So the
\* match returned is the highest-priority one: greedy quantifiers try the body
\* first, non-greedy ones try skipping first, a Disjunction goes left to right.
C4_PriorityOrder ==
  /\ [][C4_ForkStep]_vars
  /\ [](InGroup(Priorities) /\ status = "matched"
          => result[1] = PriorityEnd(pattern.child, result[0]))

\* a|ab on "ab" returned "a" although "ab" would match as well.
C4_Witness ==
  /\ status = "matched"
  /\ pattern.source = "a|ab"
  /\ input = <<CharA, CharB>>
  /\ result[0] = 0
  /\ result[1] = 1

\* The language of a node built from Char, Sequence, Group, Capture, Optional
\* and Repeat.
RECURSIVE InLang(_, _)
RECURSIVE InPower(_, _, _)
RECURSIVE InSequence(_, _)

InLang(node, w) ==
  CASE node.type = "Char" -> w = <<node.value>>
    [] node.type \in {"Group", "Capture"} -> InLang(node.child, w)
    [] node.type = "Optional" -> w = <<>> \/ InLang(node.child, w)
    [] node.type = "Sequence" -> InSequence(node.children, w)
    [] node.type = "Repeat" ->
         \E k \in node.min..(IF node.max = Null THEN node.min ELSE node.max) :
           InPower(node.child, w, k)

\* w is k consecutive matches of node.
InPower(node, w, k) ==
  IF k = 0 THEN w = <<>>
  ELSE \E i \in 0..Len(w) :
         /\ InLang(node, SubSeq(w, 1, i))
         /\ InPower(node, SubSeq(w, i + 1, Len(w)), k - 1)

InSequence(children, w) ==
  IF children = <<>> THEN w = <<>>
  ELSE \E i \in 0..Len(w) :
         /\ InLang(Head(children), SubSeq(w, 1, i))
         /\ InSequence(Tail(children), SubSeq(w, i + 1, Len(w)))

\* C5: the anchored pattern ^X{m,n}$ matches exactly the inputs that are k
\* consecutive matches of X for some m <= k <= n, for every body X (with a
\* capture group, nullable, or holding another bounded repeat), greedy or not.
C5_BoundedRepeatCount ==
  (InGroup(Repeats) /\ Finished) =>
    (status = "matched" <=> (pos0 = 0 /\ InLang(pattern.child.children[2], input)))

\* Whether group k of the returned match is set.
IsSet(k) == result[2 * k] # -1 \/ result[2 * k + 1] # -1

\* C6: captures inside a loop body do not leak between iterations.  In a match
\* of a pattern of LoopCaptures the loop body (a)|(b) sets one group in each
\* iteration: the group of the last iteration holds the last character the
\* loop took, the other group is unset.  ^(?:(a)|(b))*\1$ does not match "a"
\* (it matches the empty string, what ends with b, and what ends with aa).
C6_NoCaptureLeak ==
  (InGroup(LoopCaptures) /\ Finished) =>
    LET hasRef == pattern.source = "^(?:(a)|(b))*\\1$"
        loopEnd == IF hasRef /\ IsSet(1) THEN Len(input) - 1 ELSE Len(input)
    IN /\ Returned
       /\ hasRef =>
            (status = "matched" <=>
               /\ pos0 = 0
               /\ \/ input = <<>>
                  \/ input[Len(input)] = CharB
                  \/ Len(input) >= 2 /\ input[Len(input) - 1] = CharA)
       /\ status = "matched" =>
            IF loopEnd = 0 THEN ~IsSet(1) /\ ~IsSet(2)
            ELSE IF input[loopEnd] = CharA
            THEN result[2] = loopEnd - 1 /\ result[3] = loopEnd /\ ~IsSet(2)
            ELSE result[4] = loopEnd - 1 /\ result[5] = loopEnd /\ ~IsSet(1)

\* ^(?:(a)|(b))*\1$ on "baa": group 1 is the second character, group 2 (set in
\* the first iteration) is unset.
C6_Witness ==
  /\ status = "matched"
  /\ pattern.source = "^(?:(a)|(b))*\\1$"
  /\ input = <<CharB, CharA, CharA>>
  /\ result[2] = 1 /\ result[3] = 2
  /\ ~IsSet(2)

\* What the outcome of a negative look-around must be in three patterns.
C7_Outcome ==
  Finished =>
    /\ pattern.source = "^(?!ab).+$" =>
         (status = "matched" <=>
            pos0 = 0 /\ Len(input) >= 1 /\ ~StandsAt(<<CharA, CharB>>, 0))
    /\ pattern.source = "^.+(?<!ab)$" =>
         (status = "matched" <=>
            /\ pos0 = 0 /\ Len(input) >= 1
            /\ ~(Len(input) >= 2 /\ StandsAt(<<CharA, CharB>>, Len(input) - 2)))
    /\ (pattern.source = "b*(?!a{1,3})" /\ status = "matched") =>
         ~StandsAt(<<CharA>>, result[1])

\* What the op-codes that end a negative look-around do.
C7_Step ==
  /\ (At({"rewind_proc"}) /\ NextOp = "fail") =>
       /\ frames # <<>>
       /\ Len(procs') = LastFrame.depth
       /\ SubSeq(procs', 1, Len(procs') - 1) = LastFrame.below
  /\ (At({"fail"}) /\ PrevOp = "rewind_proc") =>
       /\ frames # <<>>
       /\ procs' = LastFrame.below
  /\ (At({"restore_pos"}) /\ PrevOp = "pop") =>
       /\ frames # <<>>
       /\ Len(procs') = LastFrame.depth
       /\ SubSeq(procs', 1, Len(procs') - 1) = LastFrame.below
       /\ ProcAt(procs', Len(procs')).pos = LastFrame.pos
       /\ ProcAt(procs', Len(procs')).caps = LastFrame.caps

\* C7: a negative look-around succeeds at a position if and only if no branch
\* of X matches there.  When X matches, the thread that would continue after
\* the assertion is removed and the thread that was below the entering thread
\* runs next; when every branch fails, execution continues after the assertion
\* with pos and all captures as they were at entry.
C7_NegativeLookAround == [](C7_Outcome) /\ [][C7_Step]_vars

\* What the op-codes that end a positive look-around do.
C8_Step ==
  /\ (At({"rewind_proc"}) /\ NextOp = "restore_pos") =>
       /\ frames # <<>>
       /\ Len(procs') = LastFrame.depth
       /\ SubSeq(procs', 1, Len(procs') - 1) = LastFrame.below
  /\ (At({"restore_pos"}) /\ PrevOp = "rewind_proc") =>
       /\ frames # <<>>
       /\ Len(procs') = LastFrame.depth
       /\ SubSeq(procs', 1, Len(procs') - 1) = LastFrame.below
       /\ ProcAt(procs', Len(procs')).pos = LastFrame.pos

\* C8: a positive look-around is zero-width and atomic: when its body
\* completes, pos is back at its value at entry, every thread forked inside the
\* body is gone, and the threads below the entering thread are still there,
\* unchanged and in the same order.
C8_PositiveLookAround == [][C8_Step]_vars

\* C9: in every returned match, every capture whose two offsets are set has
\* begin <= end and holds the text the group matched, also for unnamed and
\* named captures inside a look-behind.
C9_CaptureOffsetsOrdered ==
  (InGroup(BackRefs) /\ status = "matched") =>
    /\ \A k \in 0..captureParens :
         (result[2 * k] # -1 /\ result[2 * k + 1] # -1) => result[2 * k] <= result[2 * k + 1]
    /\ pattern.source = "^.*(?<=\\1(ab?))$" =>
         slice(input, result[2], result[3]) \in {<<CharA>>, <<CharA, CharB>>}
    /\ pattern.source = "^.*(?<=\\k<n>(?<n>a))$" =>
         slice(input, result[2], result[3]) = <<CharA>>

\* What `ref` and `ref_back` do.
C10_Step ==
  At({"ref", "ref_back"}) =>
    LET begin == proc.caps[code.index * 2]
        end == proc.caps[code.index * 2 + 1]
        s == IF begin <= end THEN SubSeq(input, begin + 1, end) ELSE <<>>
        n == Len(procs)
    IN IF begin = -1 \/ end = -1
       THEN /\ Len(procs') = n
            /\ ProcAt(procs', n) = proc
       ELSE IF code.op = "ref"
       THEN IF StandsAt(s, proc.pos)
            THEN /\ Len(procs') = n
                 /\ ProcAt(procs', n) = [proc EXCEPT !.pos = @ + Len(s)]
            ELSE Len(procs') = n - 1
       ELSE IF proc.pos >= Len(s) /\ StandsAt(s, proc.pos - Len(s))
            THEN /\ Len(procs') = n
                 /\ ProcAt(procs', n) = [proc EXCEPT !.pos = @ - Len(s)]
            ELSE Len(procs') = n - 1

\* C10: a back-reference to a capture with an unset offset succeeds without
\* moving pos; a back-reference to a set capture succeeds exactly when the
\* captured substring stands at pos (after pos for ref, before pos for
\* ref_back) and then moves pos by its length; otherwise the thread backtracks.
C10_BackReference == [][C10_Step]_vars

\* ^\1(a)$ on "a": the reference to the unset group 1 let the match go on.
C10_Witness ==
  /\ status = "matched"
  /\ pattern.source = "^\\1(a)$"
  /\ input = <<CharA>>
  /\ result[2] = 0 /\ result[3] = 1

\* C13: at every step of exec the stack depth (stackSize) of every thread is at
\* most the maxStackSize that calculateMaxStackSize computed from the op-codes,
\* also after a negative look-around followed by further look-arounds or loops,
\* and with a bounded repeat X{m,n}, n - m >= 2.
C13_StackWithinMax ==
  \A i \in 1..Len(procs) :
    ~IsHole(procs[i]) => ProcAt(procs, i).stackSize <= maxStackSize

\* ---------------------------------------------------------------- CharSet

\* The maximum valid code point of Unicode (exclusive), 0x110000.
MAX_CODE_POINT == 1114112

\* The code points below the sample bound, and the ends a range can have.
MaxPoint == 6
Points == 0..MaxPoint \cup {MAX_CODE_POINT}

\* The code points the sets are asked for: a code point above MaxPoint and below
\* MAX_CODE_POINT compares with every element of data as MAX_CODE_POINT - 1 does.
Sample == 0..MaxPoint \cup {MAX_CODE_POINT - 1}

\* Array.prototype.splice(start, deleteCount, ...items) on a sequence whose
\* element k is the array's element k - 1: the removed elements and the array
\* left (start is within the array here; deleteCount is clamped).
splice(arr, start, deleteCount, items) ==
  LET count == Min(Max(deleteCount, 0), Len(arr) - start)
  IN [removed |-> SubSeq(arr, start + 1, start + count),
      array |-> SubSeq(arr, 1, start) \o items \o SubSeq(arr, start + count + 1, Len(arr))]

\* The least i with c <= data[i * 2 + 1], by binary search.
searchBegin(this, c) ==
  LET RECURSIVE loop(_, _)
      loop(min, max) ==
        IF max - min > 1
        THEN LET mid == min + ((max - min) \div 2)
             IN IF c <= this[mid * 2 + 1 + 1] THEN loop(min, mid) ELSE loop(mid, max)
        ELSE max
  IN loop(-1, Len(this) \div 2)

\* The greatest j with data[j * 2] <= c, by binary search.
searchEnd(this, c) ==
  LET RECURSIVE loop(_, _)
      loop(min, max) ==
        IF max - min > 1
        THEN LET mid == min + ((max - min) \div 2)
             IN IF this[mid * 2 + 1] <= c THEN loop(mid, max) ELSE loop(min, mid)
        ELSE min
  IN loop(-1, Len(this) \div 2)

\* add(begin, end): the data after it.
add(this, begin, end) ==
  LET i == searchBegin(this, begin)
      j == searchEnd(this, end)
      cut == splice(this, i * 2, (j - i + 1) * 2, <<>>)
      removed == cut.removed
      begin1 == IF Len(removed) > 0 THEN Min(begin, removed[1]) ELSE begin
      end1 == IF Len(removed) > 0 THEN Max(end, removed[Len(removed)]) ELSE end
  IN splice(cut.array, i * 2, 0, <<begin1, end1>>).array

\* addCharSet(set): add every range of set.data, from the first on.
addCharSet(this, set) ==
  LET RECURSIVE loop(_, _)
      loop(d, i) ==
        IF i < Len(set) THEN loop(add(d, set[i + 1], set[i + 2]), i + 2) ELSE d
  IN loop(this, 0)

\* The mutant of invert: one end in place is taken for both.
invertEitherEnd(this) ==
  IF Len(this) = 0 THEN <<0, MAX_CODE_POINT>>
  ELSE IF this[1] = 0 \/ this[Len(this)] = MAX_CODE_POINT
       THEN SubSeq(this, 2, Len(this) - 1)
       ELSE <<0>> \o this \o <<MAX_CODE_POINT>>

\* invert(): the data after it.
invert(this) ==
  IF Len(this) = 0 THEN <<0, MAX_CODE_POINT>>
  ELSE IF this[1] = 0 /\ this[Len(this)] = MAX_CODE_POINT
       THEN SubSeq(this, 2, Len(this) - 1)
       ELSE <<0>> \o this \o <<MAX_CODE_POINT>>

\* The mutant of has: the end of a range counts as in it.
hasThroughEnd(this, c) ==
  LET i == searchEnd(this, c)
  IN IF i < 0 \/ Len(this) <= i * 2 THEN FALSE
     ELSE this[i * 2 + 1] <= c /\ c <= this[i * 2 + 2]

\* has(c).
has(this, c) ==
  LET i == searchEnd(this, c)
  IN IF i < 0 \/ Len(this) <= i * 2 THEN FALSE
     ELSE this[i * 2 + 1] <= c /\ c < this[i * 2 + 2]

\* The sets handed to addCharSet, each built by add on an empty set.
Sets == <<
  <<>>,
  <<1, 3>>,
  <<2, 3, 5, MAX_CODE_POINT>>,
  <<0, 1, 4, 6>>
>>

\* The sample code points in one of the ranges of a data array.
Members(d) ==
  {c \in Sample : \E k \in 0..((Len(d) \div 2) - 1) : d[k * 2 + 1] <= c /\ c < d[k * 2 + 2]}

CharSetInit ==
  /\ data = <<>>
  /\ model = {}
  /\ ExecIdle /\ SyntaxIdle /\ MatchIdle /\ HeapIdle /\ CompatIdle

Add ==
  \E begin \in Points, end \in Points :
    /\ begin < end
    /\ data' = add(data, begin, end)
    /\ model' = model \cup {c \in Sample : begin <= c /\ c < end}
    /\ UNCHANGED <<execVars, syntaxVars, matchVars, heapVars, compatVars>>

AddCharSet ==
  \E k \in 1..Len(Sets) :
    /\ data' = addCharSet(data, Sets[k])
    /\ model' = model \cup Members(Sets[k])
    /\ UNCHANGED <<execVars, syntaxVars, matchVars, heapVars, compatVars>>

Invert ==
  /\ data' = invert(data)
  /\ model' = Sample \ model
  /\ UNCHANGED <<execVars, syntaxVars, matchVars, heapVars, compatVars>>

CharSetNext == Add \/ AddCharSet \/ Invert

CharSetSpec == CharSetInit /\ [][CharSetNext]_vars

\* The ranges of a data array are non-empty, sorted, disjoint and do not touch.
StrictlyIncreasing(d) == \A k \in 1..(Len(d) - 1) : d[k] < d[k + 1]

\* C18: after any sequence of add(begin, end) with 0 <= begin < end <= 0x110000,
\* addCharSet and invert on an initially empty CharSet, data is strictly
\* increasing.
C18_DataStrictlyIncreasing == StrictlyIncreasing(data)

\* C19: has(c) is true exactly for the code points the naive set holds, where
\* add is the union with begin..end-1, addCharSet the union with the other set
\* and invert the complement within 0..0x110000-1.
C19_HasAgreesWithSet == \A c \in Sample : has(data, c) <=> c \in model

\* add(1, 3) and invert(): 1 and 2 are out, 0, 3 and the last code point are in.
C19_Witness ==
  /\ data = <<0, 1, 3, MAX_CODE_POINT>>
  /\ has(data, 0) /\ ~has(data, 1) /\ ~has(data, 2) /\ has(data, 3)
  /\ has(data, MAX_CODE_POINT - 1)

\* ------------------------------------------------------------------ Match

\* The most capture groups of a Match, the group 0 of the whole match aside.
MaxGroups == 1

\* The input of the Match: "ab".
MatchInput == <<CharA, CharB>>

\* The caps arrays: 2 * (N + 1) offsets, each -1 (unset) or a position of input.
CapsArrays ==
  UNION {[0..(2 * (n + 1) - 1) -> -1..Len(MatchInput)] : n \in 0..MaxGroups}

\* The name maps: one name, two names (one for a group that may not exist).
NameMaps == {[n \in {"x"} |-> 1], [n \in {"x", "y"} |-> IF n = "x" THEN 0 ELSE 2]}

\* The argument k of get, begin and end: a number or a string.
NumberKeys == {[number |-> k] : k \in -1..(MaxGroups + 1)}
StringKeys == {[string |-> k] : k \in {"x", "y", "z"}}

\* What an accessor returns: a number, a string or undefined.
JSNumber(n) == [type |-> "number", number |-> n]
JSString(s) == [type |-> "string", chars |-> s]
JSUndefined == [type |-> "undefined"]

\* An accessor returned.
Got(method, k, value) ==
  [outcome |-> "returned", method |-> method, key |-> k, value |-> value]

\* resolve(k): the two offsets of capture k, -1 where there is none.
resolve(this, k) ==
  LET k1 == IF "string" \in DOMAIN k
            THEN IF k.string \in DOMAIN this.names THEN this.names[k.string] ELSE -1
            ELSE k.number
      i == ArrayGet(this.caps, k1 * 2)
      j == ArrayGet(this.caps, k1 * 2 + 1)
  IN <<IF i = Undefined THEN -1 ELSE i, IF j = Undefined THEN -1 ELSE j>>

MatchInit ==
  /\ match \in [input : {MatchInput}, caps : CapsArrays, names : NameMaps]
  /\ got = Pending
  /\ ExecIdle /\ SyntaxIdle /\ CharSetIdle /\ HeapIdle /\ CompatIdle

\* get index()
Index ==
  /\ got' = Got("index", [number |-> 0], JSNumber(match.caps[0]))
  /\ UNCHANGED <<match, execVars, syntaxVars, charSetVars, heapVars, compatVars>>

\* get lastIndex()
LastIndex ==
  /\ got' = Got("lastIndex", [number |-> 0], JSNumber(match.caps[1]))
  /\ UNCHANGED <<match, execVars, syntaxVars, charSetVars, heapVars, compatVars>>

\* get length()
Length ==
  /\ got' = Got("length", [number |-> 0],
                JSNumber(Cardinality(DOMAIN match.caps) \div 2))
  /\ UNCHANGED <<match, execVars, syntaxVars, charSetVars, heapVars, compatVars>>

\* The mutant of Get: only the begin offset is looked at.
GetBeginOnly ==
  \E k \in NumberKeys \cup StringKeys :
    LET i == resolve(match, k)[1]
        j == resolve(match, k)[2]
    IN /\ got' = Got("get", k, IF i < 0 THEN JSUndefined
                               ELSE JSString(slice(match.input, i, j)))
       /\ UNCHANGED <<match, execVars, syntaxVars, charSetVars, heapVars, compatVars>>

\* get(k)
Get ==
  \E k \in NumberKeys \cup StringKeys :
    LET i == resolve(match, k)[1]
        j == resolve(match, k)[2]
    IN /\ got' = Got("get", k, IF i < 0 \/ j < 0 THEN JSUndefined
                               ELSE JSString(slice(match.input, i, j)))
       /\ UNCHANGED <<match, execVars, syntaxVars, charSetVars, heapVars, compatVars>>

\* begin(k)
Begin0 ==
  \E k \in NumberKeys \cup StringKeys :
    LET i == resolve(match, k)[1]
    IN /\ got' = Got("begin", k, IF i < 0 THEN JSUndefined ELSE JSNumber(i))
       /\ UNCHANGED <<match, execVars, syntaxVars, charSetVars, heapVars, compatVars>>

\* end(k)
End0 ==
  \E k \in NumberKeys \cup StringKeys :
    LET j == resolve(match, k)[2]
    IN /\ got' = Got("end", k, IF j < 0 THEN JSUndefined ELSE JSNumber(j))
       /\ UNCHANGED <<match, execVars, syntaxVars, charSetVars, heapVars, compatVars>>

MatchNext == Index \/ LastIndex \/ Length \/ Get \/ Begin0 \/ End0

MatchSpec == MatchInit /\ [][MatchNext]_vars

\* The number N of capture groups of the Match.
GroupCount == (Cardinality(DOMAIN match.caps) \div 2) - 1

\* The group a key stands for: the number itself, the group the map sends the
\* name to, -1 for a name the map does not have.
GroupOf(k) ==
  IF "number" \in DOMAIN k THEN k.number
  ELSE IF k.string \in DOMAIN match.names THEN match.names[k.string] ELSE -1

\* input[lo, hi): the characters at the positions lo .. hi - 1.
Interval(s, lo, hi) == [p \in 1..(hi - lo) |-> s[lo + p]]

\* What get(k) is to return.
Captured0(k) ==
  LET g == GroupOf(k)
  IN IF g \notin 0..GroupCount THEN JSUndefined
     ELSE IF match.caps[2 * g] = -1 \/ match.caps[2 * g + 1] = -1 THEN JSUndefined
     ELSE JSString(Interval(match.input, match.caps[2 * g], match.caps[2 * g + 1]))

Digits == {"0", "1", "2", "3", "4", "5", "6", "7", "8", "9"}
Letters == {"a", "b", "c", "f", "k", "n", "o", "x", "y", "B"}

isDigit(c) == c \in Digits
isIDStart(c) == c \in Letters \cup {"$", "_"}
isIDPart(c) == c \in Letters \cup Digits \cup {"$", "_"}
isSequenceDelimiter(c) == c \in {"|", ")", ""}

\* What a step of the parser gives: a value and the position after it, or the
\* error thrown ("RegExpSyntaxError", or "Error" for a plain Error).
Thrown0(error, message) == [error |-> error, message |-> message]
SyntaxError(message) == Thrown0("RegExpSyntaxError", message)

\* A part of the parser that is not modelled was entered.
NotModelled == Thrown0("not modelled", "")

\* current(): the character at pos, '' at the end.
current(this, p) == IF p < Len(this.source) THEN this.source[p + 1] ELSE ""

\* this.source.startsWith(s, pos)
startsWith(this, s, p) ==
  /\ p + Len(s) <= Len(this.source)
  /\ \A k \in 1..Len(s) : this.source[p + k] = s[k]

\* The mutant of preprocessFlags: a flag given twice is accepted.
preprocessFlagsLenient(flags) ==
  IF \E k \in 1..Len(flags) : flags[k] \notin {"g", "i", "m", "s", "u", "y"}
  THEN SyntaxError("unknown flag")
  ELSE [error |-> "",
        flagSet |-> [global |-> \E k \in 1..Len(flags) : flags[k] = "g",
                     ignoreCase |-> \E k \in 1..Len(flags) : flags[k] = "i",
                     multiline |-> \E k \in 1..Len(flags) : flags[k] = "m",
                     unicode |-> \E k \in 1..Len(flags) : flags[k] = "u",
                     dotAll |-> \E k \in 1..Len(flags) : flags[k] = "s",
                     sticky |-> \E k \in 1..Len(flags) : flags[k] = "y"]]

\* preprocessFlags(): the flag set, or the error thrown.
preprocessFlags(flags) ==
  LET field(c) == CASE c = "g" -> "global" [] c = "i" -> "ignoreCase"
                    [] c = "m" -> "multiline" [] c = "s" -> "dotAll"
                    [] c = "u" -> "unicode" [] c = "y" -> "sticky"
      RECURSIVE loop(_, _)
      loop(k, flagSet) ==
        IF k > Len(flags) THEN [error |-> "", flagSet |-> flagSet]
        ELSE LET c == flags[k]
             IN IF c \notin {"g", "i", "m", "s", "u", "y"} THEN SyntaxError("unknown flag")
                ELSE IF flagSet[field(c)]
                THEN SyntaxError("duplicated '" \o (IF c = "y" THEN "s" ELSE c) \o "' flag")
                ELSE loop(k + 1, [flagSet EXCEPT ![field(c)] = TRUE])
  IN loop(1, [global |-> FALSE, ignoreCase |-> FALSE, multiline |-> FALSE,
              unicode |-> FALSE, dotAll |-> FALSE, sticky |-> FALSE])

\* `const r = value; Rest(r)`: the value is computed once and then used.
Then(value, Rest(_)) == CHOOSE v \in {Rest(r) : r \in {value}} : TRUE

\* parseCaptureName(): the name (a sequence of characters) and the position
\* after its '>'.  A '\' in a name is tried as a unicode escape, which the
\* sources do not hold: it gives no character.
parseCaptureName(this, p) ==
  LET parseCaptureNameChar(q) == IF current(this, q) = "\\" THEN "" ELSE current(this, q)
      start == parseCaptureNameChar(p)
      RECURSIVE loop(_, _)
      loop(q, name) ==
        LET part == parseCaptureNameChar(q)
        IN IF ~isIDPart(part) THEN [name |-> name, pos |-> q]
           ELSE loop(q + 1, Append(name, part))
  IN IF ~isIDStart(start) THEN SyntaxError("invalid capture group name")
     ELSE LET r == loop(p + 1, <<start>>)
          IN IF current(this, r.pos) # ">" THEN SyntaxError("invalid capture group name")
             ELSE [error |-> "", name |-> r.name, pos |-> r.pos + 1]

\* names.set(name, index)
MapSet(names, name, v) ==
  [n \in DOMAIN names \cup {name} |-> IF n = name THEN v ELSE names[n]]

\* preprocessCaptures(): the number of capture parens and the name map, or the
\* error thrown.  skipCharClass is not modelled.
preprocessCaptures(this) ==
  LET RECURSIVE loop(_)
      loop(at) ==
        LET p == at.pos
            c == current(this, p)
            skip(n) == loop([at EXCEPT !.pos = p + n])
            count(n) == loop([at EXCEPT !.pos = p + n, !.captureParens = @ + 1])
        IN IF ~(p < Len(this.source)) THEN at
           ELSE CASE c = "(" ->
                       IF startsWith(this, <<"(", "?", "<">>, p)
                       THEN IF current(this, p + 3) \notin {"=", "!"}
                            THEN Then(parseCaptureName(this, p + 3), LAMBDA r :
                                   IF r.error # "" THEN r
                                   ELSE loop([at EXCEPT
                                                !.pos = r.pos,
                                                !.captureParens = @ + 1,
                                                !.names = MapSet(@, r.name,
                                                                 at.captureParens + 1)]))
                            ELSE skip(3)
                       ELSE IF ~startsWith(this, <<"(", "?">>, p) THEN count(1) ELSE skip(1)
                  [] c = "\\" -> skip(1 + Len(current(this, p + 1)))
                  [] c = "[" -> NotModelled
                  [] OTHER -> skip(1)
  IN loop([error |-> "", pos |-> 0, captureParens |-> 0, names |-> NoNames])

\* The printable ASCII characters, from ' ' (32) to '~' (126), the grave accent
\* (96) by its name, and c.codePointAt(0) on them.
Ascii == <<
  " ", "!", "\"", "#", "$", "%", "&", "'", "(", ")", "*", "+", ",", "-", ".", "/",
  "0", "1", "2", "3", "4", "5", "6", "7", "8", "9", ":", ";", "<", "=", ">", "?",
  "@", "A", "B", "C", "D", "E", "F", "G", "H", "I", "J", "K", "L", "M", "N", "O",
  "P", "Q", "R", "S", "T", "U", "V", "W", "X", "Y", "Z", "[", "\\", "]", "^", "_",
  "grave", "a", "b", "c", "d", "e", "f", "g", "h", "i", "j", "k", "l", "m", "n", "o",
  "p", "q", "r", "s", "t", "u", "v", "w", "x", "y", "z", "{", "|", "}", "~" >>

codePointAt(c) == 31 + CHOOSE k \in 1..Len(Ascii) : Ascii[k] = c

isSyntax(c) ==
  c \in {"^", "$", "\\", ".", "*", "+", "?", "(", ")", "[", "]", "{", "}", "|"}

isAssertion(n) ==
  n.type \in {"WordBoundary", "LineBegin", "LineEnd", "LookAhead", "LookBehind"}

WordBoundary(invert0) == [type |-> "WordBoundary", invert |-> invert0]

\* A node with its `raw` field (the `range` field of the nodes is left out).
WithRaw(node, raw) == node @@ [raw |-> raw]

\* A step of the parser that returned a node.
Parsed(node, p, captureParensIndex) ==
  [error |-> "", node |-> node, pos |-> p, captureParensIndex |-> captureParensIndex]

\* parseDigits(): the number and the position after it, -1 without a digit.
parseDigits(this, p) ==
  LET RECURSIVE loop(_, _)
      loop(q, n) ==
        IF isDigit(current(this, q))
        THEN loop(q + 1, (IF n < 0 THEN 0 ELSE n * 10) + codePointAt(current(this, q)) - 48)
        ELSE [value |-> n, pos |-> q]
  IN loop(p, -1)

\* tryParseRepeatQuantifier(): min, max and the position after '}', or null.
tryParseRepeatQuantifier(this, p) ==
  LET none == [null |-> TRUE]
      min == parseDigits(this, p + 1)
      comma == current(this, min.pos) = ","
      open == comma /\ current(this, min.pos + 1) = "}"
      upper == parseDigits(this, min.pos + 1)
      max == IF ~comma THEN Null ELSE IF open THEN Infinity ELSE upper.value
      q == IF ~comma THEN min.pos ELSE IF open THEN min.pos + 1 ELSE upper.pos
  IN IF min.value < 0 THEN none
     ELSE IF comma /\ ~open /\ upper.value < 0 THEN none
     ELSE IF current(this, q) # "}" THEN none
     ELSE [null |-> FALSE, min |-> min.value, max |-> max, pos |-> q + 1]

\* tryParseBackRef(): a node, null (node.type = "null"), or the error thrown.
tryParseBackRef(this, p, captureParensIndex) ==
  LET q == p + 1
      digits == parseDigits(this, q)
      none == Parsed([type |-> "null"], p, captureParensIndex)
  IN IF DOMAIN this.names # {} /\ current(this, q) = "k"
     THEN IF current(this, q + 1) # "<"
          THEN SyntaxError("invalid named back reference")
          ELSE LET r == parseCaptureName(this, q + 2)
               IN IF r.error # "" THEN r
                  ELSE Parsed(WithRaw(NamedBackRef(r.name),
                                      SubSeq(this.source, q + 3, r.pos - 1)),
                              r.pos, captureParensIndex)
     ELSE IF current(this, q) # "0" /\ digits.value >= 1
             /\ (this.additional /\ ~this.unicode => digits.value <= this.captureParens)
     THEN Parsed(BackRef(digits.value), digits.pos, captureParensIndex)
     ELSE none

\* tryParseEscape(): a Char, null, or the error thrown.  The escapes \t \n \v
\* \f \r \c \x \u are not modelled.
tryParseEscape(this, p, captureParensIndex) ==
  LET q == p + 1
      c == current(this, q)
      isOctal(d) == d \in {"0", "1", "2", "3", "4", "5", "6", "7"}
      c1 == current(this, q + 1)
      c2 == current(this, q + 2)
      octalEnd ==
        IF ~(this.additional /\ ~this.unicode) THEN q
        ELSE IF c \in {"0", "1", "2", "3"}
             THEN IF isOctal(c1) THEN (IF isOctal(c2) THEN q + 3 ELSE q + 2) ELSE q + 1
        ELSE IF c \in {"4", "5", "6", "7"}
             THEN IF isOctal(c1) THEN q + 2 ELSE q + 1
        ELSE q
      RECURSIVE parseOctal(_, _)
      parseOctal(k, n) ==
        IF k >= octalEnd THEN n
        ELSE parseOctal(k + 1, n * 8 + codePointAt(current(this, k)) - 48)
      identity == Parsed(WithRaw(Char(codePointAt(c)), <<"\\", c>>), q + 1, captureParensIndex)
      none == Parsed([type |-> "null"], p, captureParensIndex)
  IN IF c \in {"t", "n", "v", "f", "r", "c", "x", "u"} THEN NotModelled
     ELSE IF c = "" THEN SyntaxError("\\ at end of pattern")
     ELSE IF c = "0" /\ ~isDigit(c1)
     THEN Parsed(WithRaw(Char(0), <<"\\", "0">>), q + 1, captureParensIndex)
     ELSE IF octalEnd # q
     THEN Parsed(WithRaw(Char(parseOctal(q, 0)), SubSeq(this.source, p + 1, octalEnd)),
                 octalEnd, captureParensIndex)
     ELSE IF this.unicode
     THEN IF isSyntax(c) \/ c = "/" THEN identity ELSE none
     ELSE IF this.additional
     THEN IF DOMAIN this.names = {} \/ c # "k" THEN identity ELSE none
     ELSE IF ~(c \in Letters \cup Digits \cup {"_"}) THEN identity ELSE none

\* parseEscape(): the node of an escape or the error thrown.  The escape classes
\* \d \D \w \W \s \S \p \P are not modelled.
parseEscape(this, p, captureParensIndex) ==
  LET backRef == tryParseBackRef(this, p, captureParensIndex)
      escape == tryParseEscape(this, p, captureParensIndex)
  IN IF startsWith(this, <<"\\", "b">>, p)
     THEN Parsed(WordBoundary(FALSE), p + 2, captureParensIndex)
     ELSE IF startsWith(this, <<"\\", "B">>, p)
     THEN Parsed(WordBoundary(TRUE), p + 2, captureParensIndex)
     ELSE IF backRef.error # "" THEN backRef
     ELSE IF backRef.node.type # "null" THEN backRef
     ELSE IF current(this, p + 1) \in {"d", "D", "w", "W", "s", "S", "p", "P"}
     THEN NotModelled
     ELSE IF escape.error # "" THEN escape
     ELSE IF escape.node.type # "null" THEN escape
     ELSE SyntaxError("invalid escape")

RECURSIVE parseDisjunction(_, _, _)
RECURSIVE parseQuantifier(_, _, _)
RECURSIVE parseAtom(_, _, _)
RECURSIVE parseParen(_, _, _)

\* parseSequence(): the atoms with their quantifiers up to a delimiter.
parseSequence(this, p, captureParensIndex) ==
  LET RECURSIVE loop(_, _)
      loop(last, children) ==
        IF isSequenceDelimiter(current(this, last.pos))
        THEN Parsed(IF Len(children) = 1 THEN children[1] ELSE Sequence(children),
                    last.pos, last.captureParensIndex)
        ELSE Then(parseQuantifier(this, last.pos, last.captureParensIndex), LAMBDA r :
               IF r.error # "" THEN r ELSE loop(r, Append(children, r.node)))
  IN loop(Parsed(Dot, p, captureParensIndex), <<>>)

\* parseDisjunction(): the sequences between '|'.
parseDisjunction(this, p, captureParensIndex) ==
  LET RECURSIVE loop(_, _)
      loop(last, children) ==
        IF current(this, last.pos) # "|"
        THEN IF Len(children) = 1 THEN last
             ELSE Parsed(Disjunction(children), last.pos, last.captureParensIndex)
        ELSE Then(parseSequence(this, last.pos + 1, last.captureParensIndex), LAMBDA r :
               IF r.error # "" THEN r ELSE loop(r, Append(children, r.node)))
  IN Then(parseSequence(this, p, captureParensIndex), LAMBDA r :
       IF r.error # "" THEN r ELSE loop(r, <<r.node>>))

\* The mutant of parseQuantifier: an assertion takes a quantifier as any atom.
parseQuantifierOfAny(this, p, captureParensIndex) ==
  Then(parseAtom(this, p, captureParensIndex), LAMBDA r :
    LET child == r.node
        c == current(this, r.pos)
        lazy == current(this, r.pos + 1) = "?"
        simple(node) == Parsed(node, IF lazy THEN r.pos + 2 ELSE r.pos + 1,
                               r.captureParensIndex)
    IN IF r.error # "" THEN r
       ELSE CASE c = "*" -> simple(Many(child, lazy))
              [] c = "+" -> simple(Some(child, lazy))
              [] c = "?" -> simple(Optional(child, lazy))
              [] c = "{" ->
                   Then(tryParseRepeatQuantifier(this, r.pos), LAMBDA quantifier :
                     LET nonGreedy == current(this, quantifier.pos) = "?"
                     IN IF quantifier.null
                        THEN IF this.additional /\ ~this.unicode THEN r
                             ELSE SyntaxError("incomplete quantifier")
                        ELSE IF quantifier.min > (IF quantifier.max = Null
                                                  THEN quantifier.min ELSE quantifier.max)
                        THEN SyntaxError("numbers out of order in quantifier")
                        ELSE Parsed(Repeat(child, quantifier.min, quantifier.max, nonGreedy),
                                    IF nonGreedy THEN quantifier.pos + 1 ELSE quantifier.pos,
                                    r.captureParensIndex))
              [] OTHER -> r)

\* The mutant of parseQuantifier: the bounds of {m,n} are not compared.
parseQuantifierUnordered(this, p, captureParensIndex) ==
  Then(parseAtom(this, p, captureParensIndex), LAMBDA r :
    LET child == r.node
        c == current(this, r.pos)
        lazy == current(this, r.pos + 1) = "?"
        simple(node) == Parsed(node, IF lazy THEN r.pos + 2 ELSE r.pos + 1,
                               r.captureParensIndex)
    IN IF r.error # "" THEN r
       ELSE IF isAssertion(child)
               /\ ~(this.additional /\ ~this.unicode /\ child.type = "LookAhead")
       THEN r
       ELSE CASE c = "*" -> simple(Many(child, lazy))
              [] c = "+" -> simple(Some(child, lazy))
              [] c = "?" -> simple(Optional(child, lazy))
              [] c = "{" ->
                   Then(tryParseRepeatQuantifier(this, r.pos), LAMBDA quantifier :
                     LET nonGreedy == current(this, quantifier.pos) = "?"
                     IN IF quantifier.null
                        THEN IF this.additional /\ ~this.unicode THEN r
                             ELSE SyntaxError("incomplete quantifier")
                        ELSE Parsed(Repeat(child, quantifier.min, quantifier.max, nonGreedy),
                                    IF nonGreedy THEN quantifier.pos + 1 ELSE quantifier.pos,
                                    r.captureParensIndex))
              [] OTHER -> r)

\* parseQuantifier(): an atom and the quantifier after it (parseSimpleQuantifier
\* and parseRepeat are part of it).
parseQuantifier(this, p, captureParensIndex) ==
  Then(parseAtom(this, p, captureParensIndex), LAMBDA r :
    LET child == r.node
        c == current(this, r.pos)
        lazy == current(this, r.pos + 1) = "?"
        simple(node) == Parsed(node, IF lazy THEN r.pos + 2 ELSE r.pos + 1,
                               r.captureParensIndex)
    IN IF r.error # "" THEN r
       ELSE IF isAssertion(child)
               /\ ~(this.additional /\ ~this.unicode /\ child.type = "LookAhead")
       THEN r
       ELSE CASE c = "*" -> simple(Many(child, lazy))
              [] c = "+" -> simple(Some(child, lazy))
              [] c = "?" -> simple(Optional(child, lazy))
              [] c = "{" ->
                   Then(tryParseRepeatQuantifier(this, r.pos), LAMBDA quantifier :
                     LET nonGreedy == current(this, quantifier.pos) = "?"
                     IN IF quantifier.null
                        THEN IF this.additional /\ ~this.unicode THEN r
                             ELSE SyntaxError("incomplete quantifier")
                        ELSE IF quantifier.min > (IF quantifier.max = Null
                                                  THEN quantifier.min ELSE quantifier.max)
                        THEN SyntaxError("numbers out of order in quantifier")
                        ELSE Parsed(Repeat(child, quantifier.min, quantifier.max, nonGreedy),
                                    IF nonGreedy THEN quantifier.pos + 1 ELSE quantifier.pos,
                                    r.captureParensIndex))
              [] OTHER -> r)

\* parseAtom(): one atom.  parseClass is not modelled.
parseAtom(this, p, captureParensIndex) ==
  LET c == current(this, p)
      legacy == this.additional /\ ~this.unicode
      char == Parsed(WithRaw(Char(codePointAt(c)), <<c>>), p + 1, captureParensIndex)
  IN CASE c = "." -> Parsed(Dot, p + 1, captureParensIndex)
       [] c = "^" -> Parsed(LineBegin, p + 1, captureParensIndex)
       [] c = "$" -> Parsed(LineEnd, p + 1, captureParensIndex)
       [] c = "[" -> NotModelled
       [] c = "\\" -> parseEscape(this, p, captureParensIndex)
       [] c = "(" -> parseParen(this, p, captureParensIndex)
       [] c \in {"*", "+", "?"} -> SyntaxError("nothing to repeat")
       [] c = "{" ->
            IF legacy
            THEN IF ~tryParseRepeatQuantifier(this, p).null
                 THEN SyntaxError("nothing to repeat")
                 ELSE char
            ELSE SyntaxError("lone quantifier brackets")
       [] c = "}" -> IF legacy THEN char ELSE SyntaxError("lone quantifier brackets")
       [] c = "]" -> IF legacy THEN char
                     ELSE SyntaxError("lone character class brackets")
       [] c \in {")", "|", ""} -> Thrown0("Error", "BUG: invalid character")
       [] OTHER -> char

\* parseParen(): a capture, a group, a look-around or a named capture.
parseParen(this, p, captureParensIndex) ==
  LET inner(skip, unterminated, node(_)) ==
        Then(parseDisjunction(this, p + skip, captureParensIndex), LAMBDA r :
          IF r.error # "" THEN r
          ELSE IF current(this, r.pos) # ")"
          THEN SyntaxError("unterminated " \o unterminated)
          ELSE Parsed(node(r.node), r.pos + 1, r.captureParensIndex))
      capture ==
        Then(parseDisjunction(this, p + 1, captureParensIndex), LAMBDA r :
          LET index0 == r.captureParensIndex + 1
          IN IF r.error # "" THEN r
             ELSE IF current(this, r.pos) # ")" THEN SyntaxError("unterminated capture")
             ELSE Parsed(Capture(index0, r.node), r.pos + 1, index0))
      group(child) == Group(child)
      ahead(child) == LookAhead(child, FALSE)
      notAhead(child) == LookAhead(child, TRUE)
      behind(child) == LookBehind(child, FALSE)
      notBehind(child) == LookBehind(child, TRUE)
      named ==
        LET index0 == captureParensIndex + 1
        IN Then(parseCaptureName(this, p + 3), LAMBDA name :
             LET raw == SubSeq(this.source, p + 4, name.pos - 1)
             IN IF name.error # "" THEN name
                ELSE IF name.name \notin DOMAIN this.names \/ this.names[name.name] # index0
                THEN Thrown0("Error", "BUG: invalid named capture")
                ELSE Then(parseDisjunction(this, name.pos, index0), LAMBDA r :
                       IF r.error # "" THEN r
                       ELSE IF current(this, r.pos) # ")"
                       THEN SyntaxError("unterminated named capture")
                       ELSE Parsed(WithRaw(NamedCapture(name.name, r.node), raw),
                                   r.pos + 1, r.captureParensIndex)))
  IN IF ~startsWith(this, <<"(", "?">>, p) THEN capture
     ELSE IF startsWith(this, <<"(", "?", ":">>, p) THEN inner(3, "group", group)
     ELSE IF startsWith(this, <<"(", "?", "=">>, p) THEN inner(3, "look-ahead", ahead)
     ELSE IF startsWith(this, <<"(", "?", "!">>, p) THEN inner(3, "look-ahead", notAhead)
     ELSE IF startsWith(this, <<"(", "?", "<", "=">>, p)
     THEN inner(4, "look-behind", behind)
     ELSE IF startsWith(this, <<"(", "?", "<", "!">>, p)
     THEN inner(4, "look-behind", notBehind)
     ELSE IF startsWith(this, <<"(", "?", "<">>, p) THEN named
     ELSE SyntaxError("invalid group")

\* parse(): the Pattern, or the error thrown.
parse(this0) ==
  Then(preprocessFlags(this0.flags), LAMBDA flagSet :
    IF flagSet.error # "" THEN flagSet
    ELSE Then(preprocessCaptures([source |-> this0.source,
                                  additional |-> this0.additional,
                                  unicode |-> flagSet.flagSet.unicode]),
              LAMBDA captures :
      IF captures.error # "" THEN captures
      ELSE Then([source |-> this0.source, additional |-> this0.additional,
                 unicode |-> flagSet.flagSet.unicode,
                 captureParens |-> captures.captureParens, names |-> captures.names],
                LAMBDA this :
        Then(parseDisjunction(this, 0, 0), LAMBDA r :
          IF r.error # "" THEN r
          ELSE IF current(this, r.pos) # "" THEN SyntaxError("too many ')'")
          ELSE [error |-> "",
                pattern |-> [type |-> "Pattern", flagSet |-> flagSet.flagSet,
                             captureParens |-> this.captureParens, names |-> this.names,
                             child |-> r.node]]))))

\* ------------------------------------------------------- pattern to string

\* `${n}` of a number that is not negative.
RECURSIVE NumberToString(_)
NumberToString(n) ==
  IF n < 10 THEN <<Ascii[n + 17]>>
  ELSE Append(NumberToString(n \div 10), Ascii[(n % 10) + 17])

\* children.map(nodeToString).join(separator)
RECURSIVE nodeToString(_)
Join(children, separator) ==
  LET RECURSIVE loop(_)
      loop(k) ==
        IF k > Len(children) THEN <<>>
        ELSE (IF k > 1 THEN separator ELSE <<>>) \o nodeToString(children[k]) \o loop(k + 1)
  IN loop(1)

\* nodeToString (its case 'Select' is the node type 'Disjunction' of the parser;
\* line terminators as Char.raw and character classes are not modelled).
nodeToString(n) ==
  LET lazy == IF n.nonGreedy THEN <<"?">> ELSE <<>>
      sign == IF n.negative THEN <<"!">> ELSE <<"=">>
  IN CASE n.type = "Sequence" -> Join(n.children, <<>>)
       [] n.type = "Disjunction" -> Join(n.children, <<"|">>)
       [] n.type = "Capture" -> <<"(">> \o nodeToString(n.child) \o <<")">>
       [] n.type = "NamedCapture" ->
            <<"(", "?", "<">> \o n.raw \o <<">">> \o nodeToString(n.child) \o <<")">>
       [] n.type = "Group" -> <<"(", "?", ":">> \o nodeToString(n.child) \o <<")">>
       [] n.type = "Many" -> nodeToString(n.child) \o <<"*">> \o lazy
       [] n.type = "Some" -> nodeToString(n.child) \o <<"+">> \o lazy
       [] n.type = "Optional" -> nodeToString(n.child) \o <<"?">> \o lazy
       [] n.type = "Repeat" ->
            nodeToString(n.child) \o <<"{">> \o NumberToString(n.min)
            \o (IF n.max = Infinity THEN <<",">>
                ELSE IF (IF n.max = Null THEN n.min ELSE n.max) # n.min
                THEN <<",">> \o NumberToString(n.max)
                ELSE <<>>)
            \o <<"}">> \o lazy
       [] n.type = "WordBoundary" -> IF n.invert THEN <<"\\", "B">> ELSE <<"\\", "b">>
       [] n.type = "LineBegin" -> <<"^">>
       [] n.type = "LineEnd" -> <<"$">>
       [] n.type = "LookAhead" -> <<"(", "?">> \o sign \o nodeToString(n.child) \o <<")">>
       [] n.type = "LookBehind" ->
            <<"(", "?", "<">> \o sign \o nodeToString(n.child) \o <<")">>
       [] n.type = "Char" -> IF n.raw = <<"/">> THEN <<"\\", "/">> ELSE n.raw
       [] n.type = "Dot" -> <<".">>
       [] n.type = "BackRef" -> <<"\\">> \o NumberToString(n.index)
       [] n.type = "NamedBackRef" -> <<"\\", "k", "<">> \o n.raw \o <<">">>

\* flagSetToString
flagSetToString(set) ==
  (IF set.global THEN <<"g">> ELSE <<>>) \o (IF set.ignoreCase THEN <<"i">> ELSE <<>>)
  \o (IF set.multiline THEN <<"m">> ELSE <<>>) \o (IF set.dotAll THEN <<"s">> ELSE <<>>)
  \o (IF set.unicode THEN <<"u">> ELSE <<>>) \o (IF set.sticky THEN <<"y">> ELSE <<>>)

\* patternToString
patternToString(p) ==
  LET n == nodeToString(p.child)
  IN <<"/">> \o (IF n = <<>> THEN <<"(", "?", ":", ")">> ELSE n) \o <<"/">>
     \o flagSetToString(p.flagSet)

\* ----------------------------------------------------- the parser's inputs

\* The longest source and the longest flags string drawn exhaustively.
MaxSource == 3
MaxFlags == 3

\* The sources of the testCases of parser.test.ts, those with a character class
\* or an escape that is not modelled left out.
TestSources == {
  <<"(", "?", ":", ")">>,
  <<"a">>,
  <<"a", "|", "b", "|", "c">>,
  <<"a", "b", "c">>,
  <<"a", "*", "a", "+", "a", "?", "a", "{", "1", "}", "a", "{", "1", ",", "}", "a", "{", "1", ",", "2", "}", "a", "*", "?", "a", "+", "?", "a", "?", "?", "a", "{", "1", "}", "?", "a", "{", "1", ",", "}", "?", "a", "{", "1", ",", "2", "}", "?">>,
  <<"\\", "b", "*">>,
  <<"(", "?", "=", ")", "*">>,
  <<"*">>,
  <<"+">>,
  <<"?">>,
  <<"{">>,
  <<"{", "1", ",", "2", "}">>,
  <<"a", "{", "1">>,
  <<"a", "{", "1", ",", "b">>,
  <<"a", "{", "2", ",", "1", "}">>,
  <<"}">>,
  <<"]">>,
  <<"|">>,
  <<".", "^", "$">>,
  <<"\\">>,
  <<"\\", "b", "\\", "B">>,
  <<"\\", "0">>,
  <<"\\", "1">>,
  <<"(", ")", "\\", "1">>,
  <<"\\", "1", "(", ")">>,
  <<"\\", "0", "1">>,
  <<"\\", "0", "1", "2", "\\", "4", "3">>,
  <<"\\", "k", "<", "a", "b", "c", ">">>,
  <<"\\", "k", "<", ">">>,
  <<"(", "?", "<", "a", "b", "c", ">", ")", "\\", "k">>,
  <<"(", "?", "<", "a", "b", "c", ">", ")", "\\", "k", "<", "a", "b", "c", ">">>,
  <<"(", "?", "<", "a", "b", "c", ">", ")", "\\", "1">>,
  <<"(", "?", "<", "a", "b", "c", ">", ")", "\\", "k", "<", ">">>,
  <<"\\", "k", "<", "a", "b", "c", ">", "(", "?", "<", "a", "b", "c", ">", ")">>,
  <<"\\", "%">>,
  <<"(", ")", "(", "?", ":", ")", "(", "?", "<", "f", "o", "o", ">", ")", "(", "?", "=", ")", "(", "?", "!", ")", "(", "?", "<", "=", ")", "(", "?", "<", "!", ")">>,
  <<"(">>,
  <<"(", "?", ":">>,
  <<"(", "?", "<", "a", "b", "c", ">">>,
  <<"(", "?", "=">>,
  <<"(", "?", "!">>,
  <<"(", "?", "<", "=">>,
  <<"(", "?", "<", "!">>,
  <<"(", "?", "%">>,
  <<")">> }

\* Sources with captures, named captures and back references.
CaptureSources == {
  <<"(", "(", "a", ")", ")">>,
  <<"(", "a", ")", "(", "b", ")">>,
  <<"(", "a", "(", "b", ")", ")", "(", "c", ")">>,
  <<"(", "(", "a", ")", "|", "(", "b", ")", ")", "*">>,
  <<"(", "?", "<", "x", ">", "a", ")">>,
  <<"(", "?", "<", "x", ">", "a", ")", "(", "b", ")">>,
  <<"(", "a", ")", "(", "?", "<", "x", ">", "b", ")">>,
  <<"(", "(", "?", "<", "x", ">", "a", ")", ")">>,
  <<"(", "?", "<", "a", ">", "x", ")", "(", "?", "<", "a", ">", "y", ")">>,
  <<"(", "?", "<", "x", ">", "(", "?", "<", "n", ">", "a", ")", ")">>,
  <<"(", "?", "<", "=", "(", "a", ")", "(", "b", ")", ")">>,
  <<"(", "?", "<", "=", "(", "a", ")", ")">>,
  <<"(", "?", "<", "!", "(", "a", ")", "b", ")">>,
  <<"(", "?", "=", "(", "a", ")", "(", "b", ")", ")">>,
  <<"(", "?", "<", "=", "(", "?", "<", "x", ">", "a", ")", "(", "b", ")", ")">>,
  <<"(", "?", "<", "x", ">", "a", ")", "\\", "k", "<", "x", ">">>,
  <<"(", "a", ")", "\\", "1">>,
  <<"\\", "1">>,
  <<"\\", "k">>,
  <<"\\", "k", "<", "x", ">">>,
  <<"(", "?", "<", "x", ">", "a", ")", "\\", "k">>,
  <<"(", "?", "<", "1", ">", "a", ")">>,
  <<"(", "?", "<", "x">>,
  <<"(", "?", "<", "x", ">">>,
  <<"(", "?", "<">>,
  <<"(", "?">>,
  <<"(">>,
  <<"(", "?", "a", ")">>,
  <<"(", "?", "<", "x", ">", "a">> }

\* Sources with counted repeats, delimiters and escapes.
OtherSources == {
  <<"a", "{", "1", ",", "1", "}">>,
  <<"a", "{", "0", ",", "0", "}", "?">>,
  <<"a", "{", "0", "1", "}">>,
  <<"a", "{", "2", ",", "1", "}">>,
  <<"a", "{", "1", ",", "2">>,
  <<"a", "{">>,
  <<"a", "{", "}">>,
  <<"{">>,
  <<"{", "1", "}">>,
  <<"}">>,
  <<"a", "{", "1", "2", ",", "}">>,
  <<"(", "?", ":", "a", "{", "2", ",", "3", "}", ")", "{", "1", ",", "2", "}">>,
  <<>>,
  <<"a", "/", "b">>,
  <<"\\", "/">>,
  <<"\\">>,
  <<"\\", "0">>,
  <<"\\", "2">>,
  <<"^", "$", ".">>,
  <<"^", "a", "$">>,
  <<"a", ".", "b">>,
  <<"a", "|">>,
  <<"|">>,
  <<"a", "*", "*">>,
  <<"a", "?", "?">>,
  <<"(", "?", ":", "^", ")", "+">>,
  <<"(", "?", ":", "\\", "b", ")", "*">>,
  <<"a", "|", "^", "*">>,
  <<"(", "?", "!", "a", ")", "b">>,
  <<"(", "?", "<", "=", "a", ")", "b">>,
  <<"(", "?", "<", "!", "a", ")", "b">> }

\* An assertion directly followed by a quantifier.
Assertions == {
  <<"^">>,
  <<"$">>,
  <<"\\", "b">>,
  <<"\\", "B">>,
  <<"(", "?", "=", "a", ")">>,
  <<"(", "?", "!", "a", ")">>,
  <<"(", "?", "<", "=", "a", ")">>,
  <<"(", "?", "<", "!", "a", ")">> }
Quantifiers == {
  <<"*">>,
  <<"+">>,
  <<"?">>,
  <<"{", "1", "}">>,
  <<"{", "1", ",", "}">>,
  <<"{", "1", ",", "2", "}">>,
  <<"*", "?">>,
  <<"{", "1", ",", "2", "}", "?">> }
QuantifiedAssertions == {x \o q : x \in Assertions, q \in Quantifiers}

\* All sources up to MaxSource over a few characters.
ShortSources == UNION {[1..n -> {"a", "(", ")", "|", "*", "?"}] : n \in 0..MaxSource}

\* Bounds {m,n} with m > n.
OutOfOrderBounds == {<<"2", ",", "1">>, <<"1", ",", "0">>, <<"1", "0", ",", "9">>}

\* An atom, an assertion or nothing, followed by a counted quantifier whose
\* bounds are out of order, greedy or not.
OutOfOrderSources ==
  {x \o <<"{">> \o bounds \o <<"}">> \o lazy :
     x \in {<<"a">>, <<".">>, <<"(", "a", ")">>, <<"(", "?", ":", "a", ")">>,
            <<"(", "?", "=", "a", ")">>, <<"^">>, <<>>},
     bounds \in OutOfOrderBounds,
     lazy \in {<<>>, <<"?">>}}

Sources ==
  TestSources \cup CaptureSources \cup OtherSources \cup QuantifiedAssertions
  \cup OutOfOrderSources \cup ShortSources

\* All flags strings up to MaxFlags over the six flags and another letter, and
\* the string of all six flags of parser.test.ts.
FlagStrings ==
  UNION {[1..n -> {"g", "i", "m", "s", "u", "y", "x"}] : n \in 0..MaxFlags}
  \cup {<<"g", "i", "m", "s", "u", "y">>, <<"y", "u", "s", "m", "i", "g">>}

\* new Parser(source, flags, additional): every source in default, unicode and
\* strict mode, and the empty source with every flags string.
ParserInit ==
  /\ parser \in [source : Sources, flags : {<<>>, <<"u">>}, additional : BOOLEAN]
               \cup [source : {<<>>, <<"a">>}, flags : FlagStrings, additional : {TRUE}]
  /\ parsed = Pending /\ program = Pending /\ printed = Pending
  /\ ExecIdle /\ CharSetIdle /\ MatchIdle /\ HeapIdle /\ CompatIdle

\* parser.parse()
Parse ==
  /\ parsed = Pending
  /\ parsed' = LET r == parse(parser)
               IN IF r.error = "" THEN [outcome |-> "returned", pattern |-> r.pattern]
                  ELSE [outcome |-> "threw", error |-> r.error, message |-> r.message]
  /\ UNCHANGED <<parser, program, printed, execVars, charSetVars, matchVars,
               heapVars, compatVars>>

\* new Compiler(pattern).compile() on the pattern parse returned
Compile ==
  /\ parsed.outcome = "returned"
  /\ program = Pending
  /\ program' = LET r == compile(parsed.pattern)
                IN IF r.error = "" THEN [outcome |-> "returned", codes |-> r.codes]
                   ELSE [outcome |-> "threw", error |-> "Error", message |-> r.error]
  /\ UNCHANGED <<parser, parsed, printed, execVars, charSetVars, matchVars,
               heapVars, compatVars>>

\* patternToString(pattern) on the pattern parse returned
PatternToString ==
  /\ parsed.outcome = "returned"
  /\ printed = Pending
  /\ printed' = [outcome |-> "returned", string |-> patternToString(parsed.pattern)]
  /\ UNCHANGED <<parser, parsed, program, execVars, charSetVars, matchVars,
               heapVars, compatVars>>

ParserNext == Parse \/ Compile \/ PatternToString

ParserSpec == ParserInit /\ [][ParserNext]_vars

\* No source enters a part of the parser that is not modelled.
SourcesModelled == parsed.outcome = "threw" => parsed.error # "not modelled"

\* ------------------------------------------------------ parser properties

\* The nodes below a node, none for a leaf.
ChildrenOf(n) ==
  IF "children" \in DOMAIN n THEN n.children
  ELSE IF "child" \in DOMAIN n THEN <<n.child>>
  ELSE <<>>

\* The indices of the capture groups of a node in the order of their opening
\* parens (a named capture has the index the name map gives its name).
RECURSIVE CaptureIndices(_, _)
CaptureIndices(names, n) ==
  LET RECURSIVE below(_)
      below(k) ==
        IF k > Len(ChildrenOf(n)) THEN <<>>
        ELSE CaptureIndices(names, ChildrenOf(n)[k]) \o below(k + 1)
  IN (CASE n.type = "Capture" -> <<n.index>>
        [] n.type = "NamedCapture" -> <<names[n.name]>>
        [] OTHER -> <<>>)
     \o below(1)

\* C11: compile never throws 'BUG: invalid pattern' on a pattern the parser
\* returned: the compiler's running capture counter equals the index the parser
\* gave, at every Capture and NamedCapture node, nested captures and captures in
\* a look-behind included.
C11_CompilerAcceptsParsed ==
  program.outcome = "threw" => program.message # "BUG: invalid pattern"

\* C12: in every pattern the parser returns, the capture groups carry the
\* indices 1..N, each once, and the index of a group is the position of its
\* opening paren among the opening parens of the groups, nested groups included.
C12_CaptureIndicesPreOrder ==
  parsed.outcome = "returned" =>
    LET indices == CaptureIndices(parsed.pattern.names, parsed.pattern.child)
    IN /\ Len(indices) = parsed.pattern.captureParens
       /\ \A k \in 1..Len(indices) : indices[k] = k

\* C14: parse returns a Pattern or throws a RegExpSyntaxError, never another
\* error, also for a named capture in a capture and for a name used twice.
C14_OnlySyntaxErrors ==
  parsed.outcome = "threw" => parsed.error = "RegExpSyntaxError"

\* The flags strings that are to be accepted.
ValidFlags(flags) ==
  /\ \A k \in 1..Len(flags) : flags[k] \in {"g", "i", "m", "s", "u", "y"}
  /\ \A j, k \in 1..Len(flags) : j # k => flags[j] # flags[k]

HasFlag(flags, c) == \E k \in 1..Len(flags) : flags[k] = c

\* C15: a flags string is accepted exactly when each of g, i, m, s, u, y occurs
\* at most once in it, in any order, and nothing else occurs; the flag set then
\* has exactly the booleans of the letters that occur; any other flags string
\* gives a RegExpSyntaxError and no pattern.
C15_Flags ==
  parsed.outcome # "pending" =>
    /\ ~ValidFlags(parser.flags) =>
         parsed.outcome = "threw" /\ parsed.error = "RegExpSyntaxError"
    /\ ValidFlags(parser.flags) /\ parser.source \in {<<>>, <<"a">>} =>
         parsed.outcome = "returned"
    /\ parsed.outcome = "returned" =>
         /\ ValidFlags(parser.flags)
         /\ parsed.pattern.flagSet =
              [global |-> HasFlag(parser.flags, "g"),
               ignoreCase |-> HasFlag(parser.flags, "i"),
               multiline |-> HasFlag(parser.flags, "m"),
               dotAll |-> HasFlag(parser.flags, "s"),
               unicode |-> HasFlag(parser.flags, "u"),
               sticky |-> HasFlag(parser.flags, "y")]

\* The flags "yusmig" were accepted: all six booleans are set.
C15_Witness ==
  /\ parser.flags = <<"y", "u", "s", "m", "i", "g">>
  /\ parsed.outcome = "returned"
  /\ \A f \in DOMAIN parsed.pattern.flagSet : parsed.pattern.flagSet[f]

\* s holds t from position k on (k counted from 1).
OccursAt(s, t, k) == k + Len(t) - 1 <= Len(s) /\ \A i \in 1..Len(t) : s[k + i - 1] = t[i]

\* The source holds an assertion directly followed by a quantifier; with
\* lookAheads = FALSE the look-aheads do not count as assertions.
HasQuantifiedAssertion(source, lookAheads) ==
  \E x \in Assertions, q \in Quantifiers, k \in 1..Len(source) :
    /\ OccursAt(source, x \o q, k)
    /\ \/ lookAheads
       \/ (~OccursAt(x, <<"(", "?", "=">>, 1) /\ ~OccursAt(x, <<"(", "?", "!">>, 1))

\* No quantifier node below n has an assertion as its child, a LookAhead
\* excepted when lookAheads is TRUE.
RECURSIVE NoQuantifiedAssertion(_, _)
NoQuantifiedAssertion(n, lookAheads) ==
  /\ n.type \in {"Many", "Some", "Optional", "Repeat"} =>
       \/ ~isAssertion(n.child)
       \/ (lookAheads /\ n.child.type = "LookAhead")
  /\ \A k \in 1..Len(ChildrenOf(n)) : NoQuantifiedAssertion(ChildrenOf(n)[k], lookAheads)

\* C16: a quantifier directly after an assertion (^, $, \b, \B, a look-ahead, a
\* look-behind) is rejected with a RegExpSyntaxError, except that with Annex B
\* on and the u flag off a quantified look-ahead is accepted; so in every
\* returned pattern the child of a Many, Some, Optional or Repeat is never an
\* assertion, other than a LookAhead in that mode.
C16_NoQuantifiedAssertion ==
  LET legacy == parser.additional /\ ~HasFlag(parser.flags, "u")
  IN parsed.outcome # "pending" =>
       /\ HasQuantifiedAssertion(parser.source, ~legacy) =>
            parsed.outcome = "threw" /\ parsed.error = "RegExpSyntaxError"
       /\ legacy /\ parser.source \in QuantifiedAssertions
            /\ ~HasQuantifiedAssertion(parser.source, FALSE) =>
            /\ parsed.outcome = "returned"
            /\ parsed.pattern.child.type \in {"Many", "Some", "Optional", "Repeat"}
            /\ parsed.pattern.child.child.type = "LookAhead"
       /\ parsed.outcome = "returned" =>
            NoQuantifiedAssertion(parsed.pattern.child, legacy)

\* \b* was rejected in the default mode.
C16_Witness ==
  /\ parser = [source |-> <<"\\", "b", "*">>, flags |-> <<>>, additional |-> TRUE]
  /\ parsed.outcome = "threw"
  /\ parsed.error = "RegExpSyntaxError"

\* The flags of a flags string in the order g, i, m, s, u, y.
FlagsInOrder(flags) ==
  LET given(c) == HasFlag(flags, c)
  IN SelectSeq(<<"g", "i", "m", "s", "u", "y">>, given)

\* C17: patternToString(parse(source, flags)) is '/' + source + '/' + flags
\* (the flags in the order g, i, m, s, u, y) for every source that parses, the
\* empty source excepted, in Annex B, unicode and strict mode alike.
C17_RoundTrip ==
  printed.outcome = "returned" /\ parser.source # <<>> =>
    printed.string = <<"/">> \o parser.source \o <<"/">> \o FlagsInOrder(parser.flags)

\* ------------------------------------------------- exec: stack and threads

\* The slots of a thread list that hold a thread of their own.
Threads(ps) == {i \in 1..Len(ps) : ~IsHole(ps[i]) /\ ~IsAlias(ps[i])}

\* C23: the aux stack is bracketed on every path of every compiled program:
\* stackSize never goes below 0, and the stack of the matching thread is empty
\* when `match` fires; in particular the exit path of a bounded repeat X{m,n}
\* with n - m >= 2 has removed its counter by then.
C23_StackBracketing ==
  /\ \A i \in Threads(procs) : procs[i].stackSize >= 0
  /\ status = "matched" => proc.stackSize = 0

\* C29: every thread in the thread list has 0 <= pos <= |input| and
\* 0 <= pc < number of op-codes.
C29_ThreadsInRange ==
  \A i \in Threads(procs) :
    /\ procs[i].pos \in 0..Len(input)
    /\ procs[i].pc \in 0..(Len(codes) - 1)

\* The pos, stack and captures of a thread.
Memory(p) == [pos |-> p.pos, stack |-> p.stack, stackSize |-> p.stackSize, caps |-> p.caps]

\* A step of the inner loop writes to the running thread only: every other
\* thread that stays in the list is as it was.  (rewind_proc moves the running
\* thread into the slot of the thread that entered the look-around.)
OthersUnchanged ==
  \A i \in Threads(procs) :
    (/\ i # Owner(procs, Len(procs))
     /\ i <= Len(procs')
     /\ ~(At({"rewind_proc"}) /\ i = Len(procs')))
    => procs'[i] = procs[i]

\* A fork pushes a thread of its own that has the pos, stack and captures of
\* the forking thread, which keeps them.
ForkClones ==
  At({"fork_cont", "fork_next"}) =>
    /\ Len(procs') = Len(procs) + 1
    /\ Len(procs') \in Threads(procs')
    /\ Memory(procs'[Len(procs')]) = Memory(proc)
    /\ Memory(ProcAt(procs', Len(procs))) = Memory(proc)
    /\ {procs'[Len(procs')].pc, ProcAt(procs', Len(procs)).pc} =
         {proc.pc, proc.pc + code.next}

C30_Step ==
  (status = "run" /\ status' = "run" /\ procs # <<>>) => (OthersUnchanged /\ ForkClones)

\* C30: threads share no mutable state.  A fork gives the new thread its own
\* copies of stack and captures; any later write by the running thread leaves
\* every other thread in the list unchanged, so a thread resumed after the
\* threads above it were popped has the pos, stack and captures it was left
\* with at the fork.
C30_ThreadsShareNothing == [][C30_Step]_vars

\* Two threads of one fork that have since come to differ in stack and captures.
C30_Witness ==
  /\ status = "run"
  /\ Len(procs) >= 2
  /\ {Len(procs) - 1, Len(procs)} \subseteq Threads(procs)
  /\ procs[Len(procs)].caps # procs[Len(procs) - 1].caps
  /\ procs[Len(procs)].stack # procs[Len(procs) - 1].stack

\* ------------------------------------------------- parser: Repeat bounds

\* Every Repeat node at or below n has min <= max, a missing max standing for
\* min and Infinity for {m,}.
RECURSIVE RepeatsOrdered(_)
RepeatsOrdered(n) ==
  /\ n.type = "Repeat" => n.min <= (IF n.max = Null THEN n.min ELSE n.max)
  /\ \A k \in 1..Len(ChildrenOf(n)) : RepeatsOrdered(ChildrenOf(n)[k])

\* C28: every Repeat node of a pattern the parser returns has min <= max, and a
\* quantifier {m,n} with m > n raises a RegExpSyntaxError in every mode (Annex
\* B, unicode, strict) rather than being read as literal characters.
C28_RepeatOrdered ==
  /\ parsed.outcome = "returned" => RepeatsOrdered(parsed.pattern.child)
  /\ (parsed.outcome # "pending" /\ parser.source \in OutOfOrderSources) =>
       parsed.outcome = "threw" /\ parsed.error = "RegExpSyntaxError"

\* a{2,1} was rejected with Annex B on, where a{2,b is read as characters.
C28_Witness ==
  /\ parser = [source |-> <<"a", "{", "2", ",", "1", "}">>, flags |-> <<>>,
               additional |-> TRUE]
  /\ parsed.outcome = "threw"
  /\ parsed.error = "RegExpSyntaxError"
  /\ parsed.message = "numbers out of order in quantifier"

\* ------------------------------------------------- CharSet: invert twice

\* An invert() on a set as add calls build it (C18: data strictly increasing),
\* followed by another invert(), gives the data array it started from.
C27_Step ==
  (data' = invert(data) /\ StrictlyIncreasing(data)) => invert(data') = data

\* C27: invert is an involution on the representation: for every CharSet built
\* by add calls with 0 <= begin < end <= 0x110000, sets that hold code point 0
\* or end at 0x110000 included, invert applied twice yields the original data.
C27_InvertTwice == [][C27_Step]_vars

\* invert() was applied to the set of add(0, 1), which holds code point 0, and
\* a second invert() leads back.
C27_Witness ==
  /\ data = <<0, 0, 1, MAX_CODE_POINT>>
  /\ model = Sample \ {0}
  /\ invert(data) = <<0, 1>>

\* ------------------------------------------------- CharSet objects

\* A CharSet object keeps one array in its field `data` for its whole life and
\* changes it in place (splice, push, shift), so the object is known by the id
\* of that array in `arrays`.

\* new CharSet(data): the set keeps the array it is given.
newCharSet(dataId) == dataId

\* An array the program creates: the arrays after it, and the id of the new one.
NewArray(heap, items) == [arrays |-> Append(heap, items), id |-> Len(heap) + 1]

\* The mutant of clone: new CharSet(this.data).
cloneSharingData(heap, this) == [arrays |-> heap, id |-> newCharSet(this)]

\* CharSet.clone(): new CharSet(Array.from(this.data)).
cloneCharSet(heap, this) ==
  LET copy == NewArray(heap, heap[this])
  IN [arrays |-> copy.arrays, id |-> newCharSet(copy.id)]

\* set.add(begin, end), set.addCharSet(other), set.invert() on the heap.
addIn(heap, this, begin, end) == [heap EXCEPT ![this] = add(@, begin, end)]
addCharSetIn(heap, this, other) == [heap EXCEPT ![this] = addCharSet(@, heap[other])]
invertIn(heap, this) == [heap EXCEPT ![this] = invert(@)]

\* -------------------------------------------------------- CharSet: clone

\* The ends of the ranges added to the two sets.
ClonePoints == {0, 2, 4, MAX_CODE_POINT}

TablesIdle == category = <<>> /\ CACHE = <<>> /\ space = Pending /\ returned = 0

\* set1 as add calls built it; clone() not yet called.
CloneInit ==
  /\ \E k \in 1..Len(Sets) : arrays = <<Sets[k]>>
  /\ set1 = newCharSet(1)
  /\ set2 = 0
  /\ TablesIdle
  /\ ExecIdle /\ SyntaxIdle /\ CharSetIdle /\ MatchIdle /\ CompatIdle

\* const set2 = set1.clone()
Clone ==
  /\ set2 = 0
  /\ LET r == cloneCharSet(arrays, set1)
     IN arrays' = r.arrays /\ set2' = r.id
  /\ UNCHANGED <<set1, category, CACHE, space, returned>>
  /\ UNCHANGED <<execVars, syntaxVars, charSetVars, matchVars, compatVars>>

\* this.add(begin, end), this.addCharSet(other) or this.invert() on one of the
\* two sets, the other one being the argument of addCharSet.
Mutate(this, other) ==
  /\ set2 # 0
  /\ \/ \E begin \in ClonePoints, end \in ClonePoints :
          begin < end /\ arrays' = addIn(arrays, this, begin, end)
     \/ arrays' = addCharSetIn(arrays, this, other)
     \/ arrays' = invertIn(arrays, this)
  /\ UNCHANGED <<set1, set2, category, CACHE, space, returned>>
  /\ UNCHANGED <<execVars, syntaxVars, charSetVars, matchVars, compatVars>>

MutateSet1 == Mutate(set1, set2)

MutateSet2 == Mutate(set2, set1)

CloneNext == Clone \/ MutateSet1 \/ MutateSet2

CloneSpec == CloneInit /\ [][CloneNext]_vars

C26_Step ==
  /\ Clone => arrays'[set2'] = arrays[set1] /\ arrays'[set1] = arrays[set1]
  /\ MutateSet2 => arrays'[set1] = arrays[set1]
  /\ MutateSet1 => arrays'[set2] = arrays[set2]

\* C26: clone returns an independent set: after s2 = s1.clone(), any sequence
\* of add, addCharSet and invert applied to s2 leaves s1.data unchanged, and any
\* such sequence applied to s1 leaves s2.data unchanged.
C26_CloneIndependent == [][C26_Step]_vars

\* The two sets were equal at clone() and have come to differ.
C26_Witness ==
  /\ set2 # 0
  /\ arrays[set1] = <<1, 3>>
  /\ arrays[set2] = <<0, 1, 3, MAX_CODE_POINT>>

\* ------------------------------------------------- Unicode data tables

\* data/unicode is not among the sources at hand. unicode.ts and the
\* predefined sets use its export `category` as a Map from the canonical name
\* of a General_Category value to a number[] of range bounds, which they hand
\* to new CharSet. Two of its entries, with the code points of Unicode:
SpaceSeparator ==
  <<32, 33, 160, 161, 5760, 5761, 8192, 8203, 8239, 8240, 8287, 8288, 12288, 12289>>

LineSeparator == <<8232, 8233>>

\* propertyAliases.get(p) || p and propertyValueAliases.get('General_Category')?.get(v) || v
CanonicalProperty(p) == IF p = "gc" THEN "General_Category" ELSE p

CanonicalCategory(v) ==
  CASE v = "Zs" -> "Space_Separator"
    [] v = "Zl" -> "Line_Separator"
    [] OTHER -> v

\* The names given as property and as value.
PropertyNames == {"General_Category", "gc", "not defined"}
ValueNames == {"Zs", "Space_Separator", "Zl", "Line_Separator", "not defined"}

\* The arrays a run creates on top of the tables.
MaxArrays == 5

\* loadCategory(v): the set and the cache after the call.
loadCategory(cache, v0) ==
  LET v == CanonicalCategory(v0)
      key == "General_Category." \o v
  IN IF key \in DOMAIN cache THEN [set |-> cache[key], CACHE |-> cache]
     ELSE IF v \notin DOMAIN category THEN [set |-> Null, CACHE |-> cache]
     ELSE LET set == newCharSet(category[v])
          IN [set |-> set, CACHE |-> (key :> set) @@ cache]

\* loadPropertyValue(p, v); the tables script and scriptExtensions are left out,
\* and so are the names that select them.
loadPropertyValue(cache, p, v) ==
  IF CanonicalProperty(p) = "General_Category" THEN loadCategory(cache, v)
  ELSE [set |-> Null, CACHE |-> cache]

\* loadProperty(p) for the names above: none of them is a binary property.
loadProperty(cache, p) == [set |-> Null, CACHE |-> cache]

\* The EscapeClass nodes \s \S \p{v} \P{v} \p{gc=v} \P{gc=v}.
EscapeClass(kind, invert_, property_, value) ==
  [type |-> "EscapeClass", kind |-> kind, invert |-> invert_, property |-> property_, value |-> value]

EscapeClasses ==
  {EscapeClass("space", i, "", "") : i \in BOOLEAN}
    \cup {EscapeClass("unicode_property", i, v, "") : i \in BOOLEAN, v \in ValueNames}
    \cup {EscapeClass("unicode_property_value", i, p, v) :
            i \in BOOLEAN, p \in PropertyNames, v \in ValueNames}

\* Compiler.escapeClassToSet: the heap, the cache and the set returned, or the
\* error thrown.
escapeClassToSet(heap, cache, node) ==
  IF node.kind = "space"
  THEN [arrays |-> heap, CACHE |-> cache,
        set |-> IF node.invert THEN space.invertSpace ELSE space.space]
  ELSE Then(IF node.kind = "unicode_property"
            THEN Then(loadPropertyValue(cache, "General_Category", node.property),
                      LAMBDA first : IF first.set = Null
                                     THEN loadProperty(first.CACHE, node.property)
                                     ELSE first)
            ELSE loadPropertyValue(cache, node.property, node.value),
            LAMBDA r :
              IF r.set = Null
              THEN SyntaxError(IF node.kind = "unicode_property"
                               THEN "invalid Unicode property"
                               ELSE "invalid Unicode property value")
              ELSE IF node.invert
              THEN Then(cloneCharSet(heap, r.set),
                        LAMBDA c : [arrays |-> invertIn(c.arrays, c.id),
                                    CACHE |-> r.CACHE, set |-> c.id])
              ELSE [arrays |-> heap, CACHE |-> r.CACHE, set |-> r.set])

IsThrown(r) == "error" \in DOMAIN r

\* The children of a Class node: a Char, or an EscapeClass.
ClassItems == {[type |-> "Char", value |-> 97]} \cup EscapeClasses

\* The children of the Class nodes compiled: one item, a Char and an item, or
\* an item and \s.
ClassChildren ==
  {<<x>> : x \in ClassItems}
    \cup {<<[type |-> "Char", value |-> 97], x>> : x \in ClassItems}
    \cup {<<x, EscapeClass("space", FALSE, "", "")>> : x \in ClassItems}

RECURSIVE compileClassItems(_, _, _, _)
\* The loop of compileClass over node.children from the k-th on.
compileClassItems(heap, cache, set, children) ==
  IF children = <<>> THEN [arrays |-> heap, CACHE |-> cache, set |-> set]
  ELSE IF Head(children).type = "Char"
  THEN compileClassItems(addIn(heap, set, Head(children).value, Head(children).value + 1),
                         cache, set, Tail(children))
  ELSE Then(escapeClassToSet(heap, cache, Head(children)),
            LAMBDA r : IF IsThrown(r) THEN r
                       ELSE compileClassItems(addCharSetIn(r.arrays, set, r.set),
                                              r.CACHE, set, Tail(children)))

\* Compiler.compileClass: const set = new CharSet(), then the loop.
compileClass(heap, cache, children) ==
  Then(NewArray(heap, <<>>),
       LAMBDA new : compileClassItems(new.arrays, cache, newCharSet(new.id), children))

\* data/unicode is loaded; the module of the predefined sets is not yet, and
\* nothing was looked up.
TablesInit ==
  /\ arrays = <<SpaceSeparator, LineSeparator>>
  /\ category = ("Space_Separator" :> 1) @@ ("Line_Separator" :> 2)
  /\ CACHE = <<>>
  /\ space = Pending
  /\ returned = 0
  /\ set1 = 0 /\ set2 = 0
  /\ ExecIdle /\ SyntaxIdle /\ CharSetIdle /\ MatchIdle /\ CompatIdle

TablesFrame ==
  /\ UNCHANGED <<category, set1, set2>>
  /\ UNCHANGED <<execVars, syntaxVars, charSetVars, matchVars, compatVars>>

\* The module of the predefined sets is evaluated: space and invertSpace.
LoadCharClass ==
  /\ space = Pending
  /\ LET this == newCharSet(category["Space_Separator"])
         tab == addIn(arrays, this, 9, 13 + 1)
         nbsp == addIn(tab, this, 160, 160 + 1)
         zwnbsp == addIn(nbsp, this, 65279, 65279 + 1)
         c == cloneCharSet(zwnbsp, this)
     IN /\ arrays' = invertIn(c.arrays, c.id)
        /\ space' = [space |-> this, invertSpace |-> c.id]
  /\ UNCHANGED <<CACHE, returned>>
  /\ TablesFrame

\* loadPropertyValue(p, v) called (unicode.ts does not import the predefined sets).
LoadPropertyValue ==
  /\ \E p \in PropertyNames, v \in ValueNames :
       LET r == loadPropertyValue(CACHE, p, v)
       IN CACHE' = r.CACHE /\ returned' = r.set
  /\ UNCHANGED <<arrays, space>>
  /\ TablesFrame

\* What a compile step leaves: the error is thrown to the caller of compile.
CompileReturns(r) ==
  IF IsThrown(r) THEN UNCHANGED <<arrays, CACHE>> /\ returned' = Null
  ELSE arrays' = r.arrays /\ CACHE' = r.CACHE /\ returned' = r.set

\* compileEscapeClass(node) of a compiler, whose module imports both.
CompileEscapeClass ==
  /\ space # Pending
  /\ Len(arrays) < MaxArrays
  /\ \E node \in EscapeClasses : CompileReturns(escapeClassToSet(arrays, CACHE, node))
  /\ UNCHANGED space
  /\ TablesFrame

\* compileClass(node) called.
CompileClass ==
  /\ space # Pending
  /\ Len(arrays) + 2 <= MaxArrays
  /\ \E children \in ClassChildren :
       CompileReturns(compileClass(arrays, CACHE, children))
  /\ UNCHANGED space
  /\ TablesFrame

TablesNext == LoadCharClass \/ LoadPropertyValue \/ CompileEscapeClass \/ CompileClass

TablesSpec == TablesInit /\ [][TablesNext]_vars

\* C25: the Unicode data tables are never modified after they are loaded:
\* building the predefined \s set leaves the Space_Separator table unchanged,
\* so the set loadPropertyValue('General_Category', 'Zs') returns holds exactly
\* the Space_Separator code points and not U+0009.
C25_TablesReadOnly ==
  category # <<>> =>
    /\ arrays[category["Space_Separator"]] = SpaceSeparator
    /\ arrays[category["Line_Separator"]] = LineSeparator
    /\ "General_Category.Space_Separator" \in DOMAIN CACHE =>
         ~has(arrays[CACHE["General_Category.Space_Separator"]], 9)

\* The second half of C25: a compile step changes no array that is a table, a
\* predefined set or a set of the cache; it only creates arrays.
CompileKeepsShared ==
  [][(CompileEscapeClass \/ CompileClass) =>
       \A id \in 1..Len(arrays) : arrays'[id] = arrays[id]]_vars

\* ------------------------------------------------------ exec: loop bodies

\* The pos at which the thread that runs last passed each fork.
Iterations == entered[Len(procs)]

\* The thread that runs is at the jump that closes an iteration of a loop
\* (Many, Some, Repeat {n,}: the jump leads back to the fork that skips it),
\* the body of which was emitted without the push_pos / empty_check pair.
AtUncheckedLoopEnd ==
  /\ At({"jump"})
  /\ code.cont < 0
  /\ codes[proc.pc + code.cont + 1].op \in {"fork_cont", "fork_next"}
  /\ codes[proc.pc + code.cont + 1].next = -1 - code.cont
  /\ codes[proc.pc - 1].op # "empty_check"
  /\ (proc.pc + code.cont) \in DOMAIN Iterations

\* C24: a loop body emitted without the push_pos / empty_check pair, when it
\* runs to its end, finishes at a pos different from the pos at which it
\* started.
C24_UncheckedBodyAdvances ==
  AtUncheckedLoopEnd => proc.pos # Iterations[proc.pc + code.cont]

RECURSIVE MustAdvance(_)
\* The bodies for which the flag is said to be true: a Char or Dot, a Sequence
\* with an advancing child, a Disjunction of advancing alternatives, a Some or
\* a Repeat with min >= 1 of an advancing child, and a group of any kind of one.
MustAdvance(node) ==
  CASE node.type \in {"Char", "Dot"} -> TRUE
    [] node.type = "Sequence" ->
         \E i \in 1..Len(node.children) : MustAdvance(node.children[i])
    [] node.type = "Disjunction" ->
         \A i \in 1..Len(node.children) : MustAdvance(node.children[i])
    [] node.type = "Some" -> MustAdvance(node.child)
    [] node.type = "Repeat" -> node.min >= 1 /\ MustAdvance(node.child)
    [] node.type \in {"Group", "Capture", "NamedCapture"} -> MustAdvance(node.child)
    [] OTHER -> FALSE

\* The second sentence of C24, for the program of the pattern that runs and
\* for the program compiled from a parsed source.
FlagAsStated ==
  /\ status # "idle" => Programs[pat].advance = MustAdvance(Patterns[pat].child)
  /\ (parsed.outcome = "returned" /\ compile(parsed.pattern).error = "") =>
       compile(parsed.pattern).advance = MustAdvance(parsed.pattern.child)

\* ----------------------------------------------------------- RegExpCompat

\* The rounds of the loop of Symbol.match that are followed.
MaxMatches == 5

\* The patterns and strings of the RegExpCompat objects followed.
CompatPatterns == {1, 2, 5, 6, 7, 8, 12, 13, 20, 30, 36, 41, 42, 45, 48, 55, 56}
CompatStrings == Strings

\* advance(s, i, unicode)
advanceIndex(s, i, unicode) ==
  IF ~unicode \/ i + 1 >= Len(s) THEN i + 1
  ELSE IF index(s, i) >= 65536 THEN i + 2 ELSE i + 1

\* this.unicode: none of the modelled patterns has the flag u.
unicode == FALSE

\* const update = this.global || this.sticky
update == regexp.global \/ sticky

\* Match.get(0), the r[0] of the array exec returns: undefined, or the slice.
Matched0 ==
  LET i == ArrayGet(result, 0)
      j == ArrayGet(result, 1)
  IN IF i < 0 \/ j < 0 THEN Undefined ELSE slice(input, i, j)

\* A call of exec or Symbol.match: the receiver's lastIndex before it, the
\* array Symbol.match collects, and as history the offsets of the matches
\* found and how the call ended.
Call(method, string) ==
  [method |-> method, string |-> string, before |-> regexp.lastIndex,
   array |-> <<>>, found |-> <<>>, outcome |-> "running"]

Running == call # Pending /\ call.outcome = "running"

\* A RegExpCompat as its constructor leaves it: lastIndex is not assigned.
CompatInit ==
  /\ pat \in CompatPatterns
  /\ sticky \in BOOLEAN
  /\ regexp \in [global : BOOLEAN, lastIndex : {Undefined}]
  /\ call = Pending
  /\ input = <<>> /\ pos0 = 0 /\ pos = 0
  /\ procs = <<>> /\ status = "idle" /\ result = <<>> /\ tried = <<>> /\ frames = <<>>
  /\ entered = <<>>
  /\ SyntaxIdle /\ CharSetIdle /\ MatchIdle /\ HeapIdle

CompatFrame == UNCHANGED <<pat, sticky, syntaxVars, charSetVars, matchVars, heapVars>>

\* this.program.exec(string, pos) is entered: `pos = 0` stands for undefined.
EnterExec(string, lastIndex, updating) ==
  /\ input' = string
  /\ pos0' = IF updating /\ lastIndex # Undefined THEN lastIndex ELSE 0
  /\ pos' = pos0'
  /\ procs' = <<>> /\ status' = "scan" /\ result' = <<>> /\ tried' = <<>>
  /\ frames' = <<>> /\ entered' = <<>>

\* exec, or Symbol.match, has returned or thrown.
LeaveExec(outcome) ==
  /\ input' = <<>> /\ pos0' = 0 /\ pos' = 0
  /\ procs' = <<>> /\ status' = "idle" /\ result' = <<>> /\ tried' = <<>>
  /\ frames' = <<>> /\ entered' = <<>>
  /\ call' = [call EXCEPT !.outcome = outcome,
                          !.found = IF outcome = "match"
                                    THEN <<<<ArrayGet(result, 0), ArrayGet(result, 1)>>>>
                                    ELSE @]

\* regexp.lastIndex = v, by the caller between two calls.
SetLastIndex ==
  /\ ~Running
  /\ \E v \in 0..(MaxLen + 1) :
       v # regexp.lastIndex /\ regexp' = [regexp EXCEPT !.lastIndex = v]
  /\ call' = Pending
  /\ UNCHANGED execVars
  /\ CompatFrame

\* regexp.exec(string) is called, up to the entry of Program.exec.
CallExec ==
  /\ ~Running
  /\ \E string \in CompatStrings :
       /\ EnterExec(string, regexp.lastIndex, update)
       /\ call' = Call("exec", string)
  /\ UNCHANGED regexp
  /\ CompatFrame

\* A defect: lastIndex is assigned only when there is a match.
ReturnExecKeep ==
  /\ Running /\ call.method = "exec"
  /\ status \in {"matched", "null"}
  /\ regexp' = [regexp EXCEPT !.lastIndex =
                  IF update /\ status = "matched" THEN ArrayGet(result, 1) ELSE @]
  /\ LeaveExec(IF status = "matched" THEN "match" ELSE "null")
  /\ CompatFrame

\* Program.exec has returned to exec: lastIndex = match?.lastIndex ?? 0 when
\* updating, and exec returns.
ReturnExec ==
  /\ Running /\ call.method = "exec"
  /\ status \in {"matched", "null"}
  /\ regexp' = [regexp EXCEPT !.lastIndex =
                  IF update
                  THEN IF status = "matched" THEN ArrayGet(result, 1) ELSE 0
                  ELSE @]
  /\ LeaveExec(IF status = "matched" THEN "match" ELSE "null")
  /\ CompatFrame

\* Program.exec has thrown: the error leaves exec and Symbol.match.
ThrowExec ==
  /\ Running
  /\ status = "threw"
  /\ LeaveExec("threw")
  /\ UNCHANGED regexp
  /\ CompatFrame

\* regexp[Symbol.match](string) is called: with the flag g, lastIndex = 0 and
\* the first this.exec(string); without, return this.exec(string).
CallMatch ==
  /\ ~Running
  /\ \E string \in CompatStrings :
       IF regexp.global
       THEN /\ regexp' = [regexp EXCEPT !.lastIndex = 0]
            /\ EnterExec(string, 0, TRUE)
            /\ call' = Call("match", string)
       ELSE /\ UNCHANGED regexp
            /\ EnterExec(string, regexp.lastIndex, update)
            /\ call' = Call("exec", string)
  /\ CompatFrame

\* In the loop of Symbol.match, this.exec(string) has returned an array r:
\* result.push(r[0]), lastIndex advanced after an empty r[0], and the next
\* this.exec(string).
MatchAgain ==
  /\ Running /\ call.method = "match"
  /\ status = "matched"
  /\ Len(call.array) < MaxMatches
  /\ \E lastIndex \in {IF Matched0 = <<>>
                       THEN advanceIndex(call.string, ArrayGet(result, 1), unicode)
                       ELSE ArrayGet(result, 1)} :
       /\ regexp' = [regexp EXCEPT !.lastIndex = lastIndex]
       /\ EnterExec(call.string, lastIndex, TRUE)
  /\ call' = [call EXCEPT !.array = Append(@, Matched0),
                          !.found = Append(@, <<ArrayGet(result, 0), ArrayGet(result, 1)>>)]
  /\ CompatFrame

\* this.exec(string) has returned null, having set lastIndex to 0: break, and
\* return result.length === 0 ? null : result.
ReturnMatch ==
  /\ Running /\ call.method = "match"
  /\ status = "null"
  /\ regexp' = [regexp EXCEPT !.lastIndex = 0]
  /\ LeaveExec(IF call.array = <<>> THEN "null" ELSE "array")
  /\ CompatFrame

CompatNext ==
  \/ SetLastIndex
  \/ CallExec
  \/ ReturnExec
  \/ ThrowExec
  \/ CallMatch
  \/ MatchAgain
  \/ ReturnMatch
  \/ Next

CompatSpec == CompatInit /\ [][CompatNext]_vars

\* exec and the lastIndex protocol.
ExecCalled == ~Running /\ Running' /\ call'.method = "exec"
ExecReturned == Running /\ call.method = "exec" /\ ~Running' /\ call'.outcome # "threw"

C21_Step ==
  /\ ExecCalled =>
       pos' = IF update /\ regexp.lastIndex # Undefined THEN regexp.lastIndex ELSE 0
  /\ (Running /\ Running' /\ call.method = "exec") => regexp' = regexp
  /\ (ExecReturned /\ update) =>
       /\ call'.outcome = "match" => regexp'.lastIndex = call'.found[1][2]
       /\ call'.outcome = "null" => regexp'.lastIndex = 0
       /\ pos0 > Len(call.string) => call'.outcome = "null"
  /\ (ExecReturned /\ ~update) =>
       /\ pos0 = 0
       /\ regexp'.lastIndex = call.before
       /\ regexp' = regexp

\* C21: when the global or sticky flag is set, exec starts the scan at
\* lastIndex and leaves lastIndex at the end offset of the match, or at 0 when
\* there is no match (also when lastIndex was beyond the end of the string);
\* when neither flag is set the scan starts at 0 and lastIndex is unchanged.
C21_LastIndexProtocol == [][C21_Step]_vars

\* A second exec with the flag g found a match after the first one.
C21_Witness ==
  /\ call # Pending /\ call.method = "exec" /\ call.outcome = "match"
  /\ regexp.global /\ ~sticky
  /\ call.before \in 1..MaxLen
  /\ call.found[1][1] > call.before
  /\ regexp.lastIndex = call.found[1][2]

\* exec with lastIndex beyond the end of the string, and exec without flags.
C21_WitnessBeyond ==
  /\ call # Pending /\ call.method = "exec" /\ call.outcome = "null"
  /\ update /\ call.before # Undefined /\ call.before > Len(call.string)
  /\ regexp.lastIndex = 0

C21_WitnessNoFlag ==
  /\ call # Pending /\ call.method = "exec" /\ call.outcome = "match"
  /\ ~update /\ call.before = 2 /\ regexp.lastIndex = 2

\* For the patterns whose programs are as the compiler's contract has them,
\* the match exec returns lies between the start of the scan and the end of
\* the string.
SoundPatterns == CompatPatterns \ {7, 42, 56}

ExecOffsetsOrdered ==
  [][(ExecReturned /\ update /\ call'.outcome = "match" /\ pat \in SoundPatterns) =>
       /\ pos0 <= call'.found[1][1]
       /\ call'.found[1][1] <= regexp'.lastIndex
       /\ regexp'.lastIndex <= Len(call.string)]_vars

\* The global Symbol.match.
Matching == call # Pending /\ call.method = "match"

MatchesInOrder ==
  /\ \A k \in 1..Len(call.found) :
       /\ call.found[k][1] <= call.found[k][2]
       /\ k > 1 => call.found[k - 1][1] < call.found[k][1]
       /\ k > 1 => call.found[k - 1][2] <= call.found[k][1]
       /\ k <= Len(call.array) =>
            call.array[k] = slice(call.string, call.found[k][1], call.found[k][2])
  /\ Len(call.found) = Len(call.array)

\* C22: the global Symbol.match terminates, collects the successive matches
\* from position 0 in increasing order of index, returns null when there is
\* none and leaves lastIndex at 0.
C22_GlobalMatch ==
  Matching =>
    /\ status \notin {"threw", "exhausted"}
    /\ call.outcome # "threw"
    /\ Len(call.array) <= Len(call.string) + 1
    /\ MatchesInOrder
    /\ call.outcome \in {"null", "array"} => regexp.lastIndex = 0
    /\ call.outcome = "null" <=> (~Running /\ call.array = <<>>)

\* For the sound patterns the same holds.
GlobalMatchOnSound == pat \in SoundPatterns => C22_GlobalMatch

====
